---- MODULE Spec2Model ----
(***************************************************************************)
(* Model of the guarded execution pipeline of shortcut-mcp:                *)
(*   SecurityManager   (src/src/security/manager.ts)                       *)
(*   ShortcutManager   (src/src/shortcuts/manager.ts)                      *)
(*   ShortcutMCPServer (src/src/shortcuts/prompt-manager.ts, 1161-1791)    *)
(* and of the tool list of PromptShortcutMCPServer, which shares the        *)
(* SecurityManager.                                                        *)
(* Strings the code inspects (shortcut names, inputs, outputs) are         *)
(* sequences of one-character strings, so that toLowerCase, includes,      *)
(* startsWith and the regular expressions are computed, not assumed.       *)
(***************************************************************************)
EXTENDS Integers, Sequences, FiniteSets, TLC

VARIABLES
    config,            \* SecurityManager.config / ShortcutManager.config
    now,               \* the clock read by Date.now()
    rateLimitTracker,  \* SecurityManager.rateLimitTracker : clientId -> timestamps
    auditLog,          \* SecurityManager.auditLog
    lastCall,          \* the most recent synchronous SecurityManager call and its result
    admitted,          \* history: timestamps of the requests that passed checkRateLimit
    issuers,           \* history: the client that issued each of these requests
    decisions,         \* history: the answers isShortcutAllowed gave, per name
    logged,            \* history: number of logExecution calls since the last clearAuditLog
    shortcutsCache,    \* ShortcutManager.shortcutsCache : cache key -> CacheEntry
    infoCache,         \* ShortcutManager.infoCache : name -> CacheEntry
    cacheStats,        \* ShortcutManager.cacheStats
    call,              \* per tools/call request: the request, where its handler stands,
                       \* the security result, the response and its history
    exec               \* per request: its executeShortcut call (timer, process, result)

secVars == <<rateLimitTracker, auditLog, lastCall, admitted, issuers, decisions, logged>>
mgrVars == <<shortcutsCache, infoCache, cacheStats>>
reqVars == <<call, exec>>
vars == <<config, now, secVars, mgrVars, reqVars>>

----------------------------------------------------------------------------
(* Bounds of the model *)

\* the clock runs from 0 to MaxTime
MaxTime == 3
\* logExecution calls explored by SpecAudit beyond the log's capacity
MaxOverflow == 2
\* tools/call requests the server receives
MaxCalls == 2

----------------------------------------------------------------------------
(* Strings *)

UpperCase == <<"A","B","C","D","E","F","G","H","I","J","K","L","M",
               "N","O","P","Q","R","S","T","U","V","W","X","Y","Z">>
LowerCase == <<"a","b","c","d","e","f","g","h","i","j","k","l","m",
               "n","o","p","q","r","s","t","u","v","w","x","y","z">>

toLowerChar(c) ==
    IF \E i \in 1..26 : UpperCase[i] = c
    THEN LowerCase[CHOOSE i \in 1..26 : UpperCase[i] = c]
    ELSE c

\* String.prototype.toLowerCase
toLowerCase(s) == [i \in 1..Len(s) |-> toLowerChar(s[i])]

\* String.prototype.includes
includes(s, sub) ==
    \E i \in 0..(Len(s) - Len(sub)) : SubSeq(s, i + 1, i + Len(sub)) = sub

\* String.prototype.startsWith
startsWith(s, prefix) ==
    /\ Len(prefix) <= Len(s)
    /\ SubSeq(s, 1, Len(prefix)) = prefix

\* the regular expression class \s, over the characters the model uses
isSpace(c) == c \in {" ", "\t", "\n"}

\* /w1\s+w2/ (case-insensitive when ci): w1, one or more blanks, w2
matchesWords(s, w1, w2, ci) ==
    LET t == IF ci THEN toLowerCase(s) ELSE s IN
    \E i \in 1..Len(t) : \E k \in 1..Len(t) :
        /\ i + Len(w1) + k + Len(w2) - 1 <= Len(t)
        /\ SubSeq(t, i, i + Len(w1) - 1) = w1
        /\ \A j \in (i + Len(w1))..(i + Len(w1) + k - 1) : isSpace(t[j])
        /\ SubSeq(t, i + Len(w1) + k, i + Len(w1) + k + Len(w2) - 1) = w2

\* shortcut names
HelloWorld == <<"H","e","l","l","o"," ","W","o","r","l","d">>
SystemConfiguration == <<"S","y","s","t","e","m"," ","C","o","n","f","i","g",
                         "u","r","a","t","i","o","n">>
WorkNotes == <<"W","o","r","k"," ","N","o","t","e","s">>
MyADMINTool == <<"M","y"," ","A","D","M","I","N"," ","T","o","o","l">>
NoName == <<>>

ShortcutNames == {HelloWorld, SystemConfiguration, WorkNotes, MyADMINTool}

\* an allowed prefix
WorkPrefix == <<"W","o","r","k">>

----------------------------------------------------------------------------
(* Values *)

LOW == "low"
MEDIUM == "medium"
HIGH == "high"

\* request inputs: undefined, or a string
NoInput == [kind |-> "undefined", text |-> <<>>]
StringInput(t) == [kind |-> "string", text |-> t]

SmallText == <<"h","i">>
\* a text with a destructive shell command in it, as long as the
\* maxInputSize the model configures
DangerousText == <<"r","m"," ","-","r","f">>
\* a text longer than every maxInputSize the model configures
BigText == <<"a","a","a","a","a","a","a","a","a","a","a","a","a","a","a","a","a","a","a","a">>
\* a text with a script block in it
ScriptText == <<"<","s","c","r","i","p","t",">","x","<","/","s","c","r","i","p","t",">">>

\* an MCP request: request.method, whether request.params is present,
\* params.name (tool), and params.arguments.{name, input, timeout};
\* "" and <<>> stand for a missing (undefined) or empty value, 0 for no timeout
\* the list_shortcuts arguments: category, search and limit ("" , <<>>, 0: missing)
FilterArgs(category, search, limit) ==
    [category |-> category, search |-> search, limit |-> limit]

NoFilterArgs == FilterArgs("", <<>>, 0)

Request(method, hasParams, tool, name, input, timeout) ==
    [method |-> method, hasParams |-> hasParams, tool |-> tool,
     name |-> name, input |-> input, timeout |-> timeout, filter |-> NoFilterArgs]

RunShortcut(name, input) == Request("tools/call", TRUE, "run_shortcut", name, input, 0)
ToolCall(tool) == Request("tools/call", TRUE, tool, NoName, NoInput, 0)
GetShortcutInfo(name) == Request("tools/call", TRUE, "get_shortcut_info", name, NoInput, 0)
ListShortcuts(filterArgs) == [ToolCall("list_shortcuts") EXCEPT !.filter = filterArgs]

\* the prompt server's parse_shortcut, with the text to expand
ParseShortcut(text) == [ToolCall("parse_shortcut") EXCEPT !.input = StringInput(text)]

NoRequest == Request("", FALSE, "", NoName, NoInput, 0)

\* the tool names the tools/list handlers advertise: ShortcutMCPServer and
\* PromptShortcutMCPServer
AdvertisedTools ==
    {"list_shortcuts", "run_shortcut", "get_shortcut_info", "create_shortcut",
     "delete_shortcut", "list_templates", "create_simple_shortcut"}

PromptAdvertisedTools ==
    {"parse_shortcut", "list_shortcuts", "create_shortcut", "update_shortcut",
     "delete_shortcut", "get_shortcut_details"}

SecurityResult(allowed, reason, riskLevel) ==
    [allowed |-> allowed, reason |-> reason, riskLevel |-> riskLevel]

Allowed == SecurityResult(TRUE, "", LOW)

----------------------------------------------------------------------------
(* SecurityManager *)

systemKeywords ==
    { <<"s","y","s","t","e","m">>, <<"s","e","t","t","i","n","g">>,
      <<"p","r","e","f","e","r","e","n","c","e">>, <<"c","o","n","f","i","g">>,
      <<"a","d","m","i","n">>, <<"s","e","c","u","r","i","t","y">>,
      <<"p","a","s","s","w","o","r","d">>, <<"k","e","y","c","h","a","i","n">>,
      <<"p","e","r","m","i","s","s","i","o","n">> }

isSystemShortcut_caseSensitive(shortcutName) ==
    \E keyword \in systemKeywords : includes(shortcutName, keyword)

isSystemShortcut(shortcutName) ==
    LET lowerName == toLowerCase(shortcutName) IN
    \E keyword \in systemKeywords : includes(lowerName, keyword)

isShortcutAllowed(shortcutName) ==
    IF shortcutName \in config.blockedShortcuts
    THEN FALSE
    ELSE IF ~config.allowSystemShortcuts /\ isSystemShortcut(shortcutName)
    THEN FALSE
    ELSE LET allowedPrefixes == config.allowedPrefixes IN
         IF Len(allowedPrefixes) > 0
         THEN LET hasAllowedPrefix ==
                      \E i \in 1..Len(allowedPrefixes) :
                          startsWith(shortcutName, allowedPrefixes[i])
              IN  IF ~hasAllowedPrefix THEN FALSE ELSE TRUE
         ELSE TRUE

\* Buffer.byteLength(input, 'utf8'): the model's characters are one byte each
calculateInputSize(input) == Len(input.text)

dangerousContent(text) ==
    \/ matchesWords(text, <<"r","m">>, <<"-","r","f">>, FALSE)
    \/ matchesWords(text, <<"s","u","d","o">>, <<>>, FALSE)
    \/ includes(text, <<"p","a","s","s","w","d">>)
    \/ matchesWords(text, <<"d","e","l","e","t","e">>, <<"f","r","o","m">>, TRUE)
    \/ matchesWords(text, <<"d","r","o","p">>, <<"t","a","b","l","e">>, TRUE)

validateInput_atLimit(input) ==
    LET truthy == input.kind = "string" /\ Len(input.text) > 0
        errors ==
            IF truthy /\ config.maxInputSize # 0
               /\ calculateInputSize(input) >= config.maxInputSize
            THEN <<"INPUT_TOO_LARGE">> ELSE <<>>
        warnings ==
            IF input.kind = "string" /\ dangerousContent(input.text)
            THEN <<"POTENTIALLY_DANGEROUS_CONTENT">> ELSE <<>>
    IN  [valid |-> Len(errors) = 0, errors |-> errors, warnings |-> warnings]

\* an empty string is falsy, so its size is not measured
validateInput(input) ==
    LET truthy == input.kind = "string" /\ Len(input.text) > 0
        errors ==
            IF truthy /\ config.maxInputSize # 0
               /\ calculateInputSize(input) > config.maxInputSize
            THEN <<"INPUT_TOO_LARGE">> ELSE <<>>
        warnings ==
            IF input.kind = "string" /\ dangerousContent(input.text)
            THEN <<"POTENTIALLY_DANGEROUS_CONTENT">> ELSE <<>>
    IN  [valid |-> Len(errors) = 0, errors |-> errors, warnings |-> warnings]

validateRunShortcut_inputFirst(args) ==
    IF Len(args.name) = 0
    THEN SecurityResult(FALSE, "Shortcut name is required", MEDIUM)
    ELSE IF args.input.kind # "undefined" /\ ~validateInput(args.input).valid
    THEN SecurityResult(FALSE, "Input validation failed", HIGH)
    ELSE IF ~isShortcutAllowed(args.name)
    THEN SecurityResult(FALSE, "Shortcut is not allowed", HIGH)
    ELSE Allowed

validateRunShortcut(args) ==
    IF Len(args.name) = 0
    THEN SecurityResult(FALSE, "Shortcut name is required", MEDIUM)
    ELSE IF ~isShortcutAllowed(args.name)
    THEN SecurityResult(FALSE, "Shortcut is not allowed", HIGH)
    ELSE IF args.input.kind # "undefined" /\ ~validateInput(args.input).valid
    THEN SecurityResult(FALSE, "Input validation failed", HIGH)
    ELSE Allowed

validateToolCall(params) ==
    IF params.tool = ""
    THEN SecurityResult(FALSE, "Tool name is required", MEDIUM)
    ELSE IF params.tool = "run_shortcut"
    THEN validateRunShortcut(params)
    ELSE IF params.tool \in {"list_shortcuts", "get_shortcut_info"}
    THEN Allowed
    ELSE SecurityResult(FALSE, "Unknown tool", MEDIUM)

validateMethod_lenient(method, params) ==
    IF method = "tools/call" THEN validateToolCall(params)
    ELSE Allowed

validateMethod(method, params) ==
    IF method = "tools/call" THEN validateToolCall(params)
    ELSE IF method = "tools/list" THEN Allowed
    ELSE SecurityResult(FALSE, "Unknown method", MEDIUM)

\* Map.get(clientId) || []
requestTimesOf(tracker, clientId) ==
    IF clientId \in DOMAIN tracker THEN tracker[clientId] ELSE <<>>

\* Map.set(clientId, requestTimes)
trackerSet(tracker, clientId, requestTimes) ==
    [c \in DOMAIN tracker \cup {clientId} |->
        IF c = clientId THEN requestTimes ELSE tracker[c]]

RECURSIVE filterWindow_inclusive(_, _)
filterWindow_inclusive(times, window) ==
    IF times = <<>> THEN <<>>
    ELSE IF now - Head(times) <= window
         THEN <<Head(times)>> \o filterWindow_inclusive(Tail(times), window)
         ELSE filterWindow_inclusive(Tail(times), window)

\* Array.prototype.filter(time => now - time < window)
RECURSIVE filterWindow(_, _)
filterWindow(times, window) ==
    IF times = <<>> THEN <<>>
    ELSE IF now - Head(times) < window
         THEN <<Head(times)>> \o filterWindow(Tail(times), window)
         ELSE filterWindow(Tail(times), window)

\* the result and the tracker the call leaves behind
checkRateLimit_offByOne(clientId) ==
    LET window == config.rateLimit.windowMs
        maxRequests == config.rateLimit.maxRequests
        requestTimes == filterWindow(requestTimesOf(rateLimitTracker, clientId), window)
    IN  IF Len(requestTimes) > maxRequests
        THEN [result |-> SecurityResult(FALSE, "Rate limit exceeded", MEDIUM),
              tracker |-> rateLimitTracker]
        ELSE [result |-> Allowed,
              tracker |-> trackerSet(rateLimitTracker, clientId, Append(requestTimes, now))]

\* a denial that writes the new timestamp back
checkRateLimit_countsDenied(clientId) ==
    LET window == config.rateLimit.windowMs
        maxRequests == config.rateLimit.maxRequests
        requestTimes == filterWindow(requestTimesOf(rateLimitTracker, clientId), window)
    IN  IF Len(requestTimes) >= maxRequests
        THEN [result |-> SecurityResult(FALSE, "Rate limit exceeded", MEDIUM),
              tracker |-> trackerSet(rateLimitTracker, clientId, Append(requestTimes, now))]
        ELSE [result |-> Allowed,
              tracker |-> trackerSet(rateLimitTracker, clientId, Append(requestTimes, now))]

\* an admission that appends to the stored list, not to the trimmed one
checkRateLimit_noTrim(clientId) ==
    LET window == config.rateLimit.windowMs
        maxRequests == config.rateLimit.maxRequests
        stored == requestTimesOf(rateLimitTracker, clientId)
        requestTimes == filterWindow(stored, window)
    IN  IF Len(requestTimes) >= maxRequests
        THEN [result |-> SecurityResult(FALSE, "Rate limit exceeded", MEDIUM),
              tracker |-> rateLimitTracker]
        ELSE [result |-> Allowed,
              tracker |-> trackerSet(rateLimitTracker, clientId, Append(stored, now))]

checkRateLimit(clientId) ==
    LET window == config.rateLimit.windowMs
        maxRequests == config.rateLimit.maxRequests
        requestTimes == filterWindow(requestTimesOf(rateLimitTracker, clientId), window)
    IN  IF Len(requestTimes) >= maxRequests
        THEN [result |-> SecurityResult(FALSE, "Rate limit exceeded", MEDIUM),
              tracker |-> rateLimitTracker]
        ELSE [result |-> Allowed,
              tracker |-> trackerSet(rateLimitTracker, clientId, Append(requestTimes, now))]

\* the request passes the structural check (method and params present)
wellFormed(request) == request.method # "" /\ request.hasParams

\* the method and tool checks made before the rate-limit step
validateRequest_policyFirst(request) ==
    IF ~wellFormed(request)
    THEN [result |-> SecurityResult(FALSE, "Invalid request format", MEDIUM),
          tracker |-> rateLimitTracker, counted |-> FALSE]
    ELSE LET methodResult == validateMethod(request.method, request)
         IN  IF ~methodResult.allowed
             THEN [result |-> methodResult, tracker |-> rateLimitTracker,
                   counted |-> FALSE]
             ELSE LET rl == IF config.enableRateLimit THEN checkRateLimit("default")
                            ELSE [result |-> Allowed, tracker |-> rateLimitTracker]
                  IN  IF ~rl.result.allowed
                      THEN [result |-> rl.result, tracker |-> rl.tracker,
                            counted |-> FALSE]
                      ELSE [result |-> Allowed, tracker |-> rl.tracker,
                            counted |-> config.enableRateLimit]

\* the result, the tracker the call leaves behind, and whether the request
\* passed the rate-limit step
validateRequest(request) ==
    IF ~wellFormed(request)
    THEN [result |-> SecurityResult(FALSE, "Invalid request format", MEDIUM),
          tracker |-> rateLimitTracker, counted |-> FALSE]
    ELSE LET rl == IF config.enableRateLimit THEN checkRateLimit("default")
                   ELSE [result |-> Allowed, tracker |-> rateLimitTracker]
         IN  IF ~rl.result.allowed
             THEN [result |-> rl.result, tracker |-> rl.tracker, counted |-> FALSE]
             ELSE LET methodResult == validateMethod(request.method, request)
                  IN  [result |-> IF ~methodResult.allowed THEN methodResult ELSE Allowed,
                       tracker |-> rl.tracker,
                       counted |-> config.enableRateLimit]

\* the first position from i on that holds no blank
RECURSIVE skipSpaces(_, _)
skipSpaces(t, i) == IF i <= Len(t) /\ isSpace(t[i]) THEN skipSpaces(t, i + 1) ELSE i

\* the regular expression class \w
isWord(c) ==
    \/ \E k \in 1..26 : c = UpperCase[k] \/ c = LowerCase[k]
    \/ c \in {"0", "1", "2", "3", "4", "5", "6", "7", "8", "9", "_"}

\* the first position from i on that holds no word character
RECURSIVE skipWord(_, _)
skipWord(t, i) == IF i <= Len(t) /\ isWord(t[i]) THEN skipWord(t, i + 1) ELSE i

\* t holds word at position i, whatever the case of its letters
holdsAt(t, word, i) ==
    /\ i + Len(word) - 1 <= Len(t)
    /\ toLowerCase(SubSeq(t, i, i + Len(word) - 1)) = word

ScriptOpen == <<"<","s","c","r","i","p","t">>
ScriptClose == <<"<","/","s","c","r","i","p","t",">">>
JavascriptUri == <<"j","a","v","a","s","c","r","i","p","t",":">>
VbscriptUri == <<"v","b","s","c","r","i","p","t",":">>

\* the first position from i on where the closing tag starts, or 0
RECURSIVE closingFrom(_, _)
closingFrom(t, i) ==
    IF i > Len(t) THEN 0
    ELSE IF holdsAt(t, ScriptClose, i) THEN i
    ELSE closingFrom(t, i + 1)

\* one of sanitizeInput's patterns tried at position i: the position after
\* the match, or 0
\*   script:     /<script\b[^<]*(?:(?!<\/script>)<[^<]*)*<\/script>/i, which
\*               ends with the first closing tag after the opening one
\*   javascript: /javascript:/i      vbscript: /vbscript:/i
\*   handler:    /on\w+\s*=/i
vectorEnd(t, vector, i) ==
    IF vector = "script"
    THEN IF /\ holdsAt(t, ScriptOpen, i)
            /\ i + Len(ScriptOpen) <= Len(t)
            /\ ~isWord(t[i + Len(ScriptOpen)])
            /\ closingFrom(t, i + Len(ScriptOpen)) # 0
         THEN closingFrom(t, i + Len(ScriptOpen)) + Len(ScriptClose)
         ELSE 0
    ELSE IF vector = "javascript"
    THEN IF holdsAt(t, JavascriptUri, i) THEN i + Len(JavascriptUri) ELSE 0
    ELSE IF vector = "vbscript"
    THEN IF holdsAt(t, VbscriptUri, i) THEN i + Len(VbscriptUri) ELSE 0
    ELSE IF /\ holdsAt(t, <<"o","n">>, i)
            /\ skipWord(t, i + 2) > i + 2
         THEN LET eq == skipSpaces(t, skipWord(t, i + 2))
              IN  IF eq <= Len(t) /\ t[eq] = "=" THEN eq + 1 ELSE 0
         ELSE 0

\* String.prototype.replace(pattern, '') with a global pattern, from i on
RECURSIVE removeFrom(_, _, _)
removeFrom(t, vector, i) ==
    IF i > Len(t) THEN <<>>
    ELSE LET end == vectorEnd(t, vector, i) IN
         IF end # 0
         THEN removeFrom(t, vector, end)
         ELSE <<t[i]>> \o removeFrom(t, vector, i + 1)

remove(t, vector) == removeFrom(t, vector, 1)

\* an object input: its property values, in order
ObjectInput(values) == [kind |-> "object", text |-> <<>>, values |-> values]

RECURSIVE sanitizeInput(_)
sanitizeInput(input) ==
    IF input.kind = "string"
    THEN [input EXCEPT !.text =
             remove(remove(remove(remove(@, "script"), "javascript"), "vbscript"),
                    "handler")]
    ELSE IF input.kind = "object"
    THEN [input EXCEPT !.values = [k \in DOMAIN @ |-> sanitizeInput(@[k])]]
    ELSE input

\* the first position from i on that holds a blank
RECURSIVE skipNonSpaces(_, _)
skipNonSpaces(t, i) == IF i <= Len(t) /\ ~isSpace(t[i]) THEN skipNonSpaces(t, i + 1) ELSE i

\* the pattern with \S in place of \S+
matchEnd_oneChar(t, word, i) ==
    IF \/ i + Len(word) - 1 > Len(t)
       \/ toLowerCase(SubSeq(t, i, i + Len(word) - 1)) # word
    THEN 0
    ELSE LET sep == skipSpaces(t, i + Len(word)) IN
         IF sep > Len(t) \/ t[sep] \notin {":", "="}
         THEN 0
         ELSE LET value == skipSpaces(t, sep + 1)
              IN  IF value > Len(t) THEN 0 ELSE value + 1

\* /word\s*[:=]\s*\S+/i tried at position i: the position after the match, or 0
matchEnd(t, word, i) ==
    IF \/ i + Len(word) - 1 > Len(t)
       \/ toLowerCase(SubSeq(t, i, i + Len(word) - 1)) # word
    THEN 0
    ELSE LET sep == skipSpaces(t, i + Len(word)) IN
         IF sep > Len(t) \/ t[sep] \notin {":", "="}
         THEN 0
         ELSE LET value == skipSpaces(t, sep + 1)
                  end == skipNonSpaces(t, value)
              IN  IF end = value THEN 0 ELSE end

REDACTED == <<":"," ","[","R","E","D","A","C","T","E","D","]">>

\* String.prototype.replace(/word\s*[:=]\s*\S+/gi, 'word: [REDACTED]') from i on
RECURSIVE redactFrom(_, _, _)
redactFrom(t, word, i) ==
    IF i > Len(t) THEN <<>>
    ELSE LET end == matchEnd(t, word, i) IN
         IF end # 0
         THEN word \o REDACTED \o redactFrom(t, word, end)
         ELSE <<t[i]>> \o redactFrom(t, word, i + 1)

redact(t, word) == redactFrom(t, word, 1)

filterOutput(output) ==
    IF output.kind = "string"
    THEN [output EXCEPT !.text =
             redact(redact(redact(redact(@,
                 <<"p","a","s","s","w","o","r","d">>),
                 <<"t","o","k","e","n">>),
                 <<"k","e","y">>),
                 <<"s","e","c","r","e","t">>)]
    ELSE output

\* the log holds at most this many entries
MaxAuditEntries == 1000
\* executions longer than this many ms are rated MEDIUM
LongExecutionMs == 30000

assessRiskLevel(shortcutName, details) ==
    IF isSystemShortcut(shortcutName) THEN HIGH
    ELSE IF ~details.success THEN MEDIUM
    ELSE IF details.executionTime > LongExecutionMs THEN MEDIUM
    ELSE LOW

\* an AuditEntry; serial numbers the logExecution calls since the last
\* clearAuditLog (the code's id, a timestamp and a random suffix, carries no order)
AuditEntry(shortcutName, details) ==
    [serial |-> logged + 1,
     operation |-> "shortcut_execution",
     shortcutName |-> shortcutName,
     input |-> IF config.logExecutions THEN details.input ELSE StringInput(<<"[NOT_LOGGED]">>),
     success |-> details.success,
     executionTime |-> details.executionTime,
     riskLevel |-> assessRiskLevel(shortcutName, details)]

\* Array.prototype.slice(-n)
sliceLast(a, n) == IF Len(a) <= n THEN a ELSE SubSeq(a, Len(a) - n + 1, Len(a))

\* Array.prototype.slice(0, n)
sliceFirst(a, n) == IF Len(a) <= n THEN a ELSE SubSeq(a, 1, n)

\* the auditLog the call leaves behind
logExecution_keepOldest(shortcutName, details) ==
    LET pushed == Append(auditLog, AuditEntry(shortcutName, details))
    IN  IF Len(pushed) > MaxAuditEntries
        THEN sliceFirst(pushed, MaxAuditEntries)
        ELSE pushed

logExecution(shortcutName, details) ==
    LET pushed == Append(auditLog, AuditEntry(shortcutName, details))
    IN  IF Len(pushed) > MaxAuditEntries
        THEN sliceLast(pushed, MaxAuditEntries)
        ELSE pushed

ExecutionDetails(input, executionTime, success) ==
    [input |-> input, executionTime |-> executionTime, success |-> success]

\* Array.prototype.slice(start): a negative start counts from the end of the
\* array, and -0 is 0, the start of the array
slice(a, start) ==
    LET from == IF start < 0
                THEN (IF Len(a) + start > 0 THEN Len(a) + start ELSE 0)
                ELSE (IF start < Len(a) THEN start ELSE Len(a))
    IN  SubSeq(a, from + 1, Len(a))

\* getAuditLog(limit = 100)
DefaultAuditLimit == 100

\* the arguments of a getAuditLog call: <<>> (limit omitted) or <<limit>>
limitOf(args) == IF args = <<>> THEN DefaultAuditLimit ELSE args[1]

getAuditLog(args) == slice(auditLog, -limitOf(args))


----------------------------------------------------------------------------
(* ShortcutManager *)

categorizeShortcut(name) ==
    LET lowerName == toLowerCase(name) IN
    IF \/ includes(lowerName, <<"e","m","a","i","l">>)
       \/ includes(lowerName, <<"m","e","s","s","a","g","e">>)
       \/ includes(lowerName, <<"c","a","l","l">>)
    THEN "communication"
    ELSE IF \/ includes(lowerName, <<"p","h","o","t","o">>)
            \/ includes(lowerName, <<"v","i","d","e","o">>)
            \/ includes(lowerName, <<"m","u","s","i","c">>)
    THEN "media"
    ELSE IF \/ includes(lowerName, <<"n","o","t","e">>)
            \/ includes(lowerName, <<"t","a","s","k">>)
            \/ includes(lowerName, <<"c","a","l","e","n","d","a","r">>)
    THEN "productivity"
    ELSE IF \/ includes(lowerName, <<"s","y","s","t","e","m">>)
            \/ includes(lowerName, <<"s","e","t","t","i","n","g">>)
    THEN "system"
    ELSE "utilities"

\* `macOS shortcut: ${name}`
descriptionOf(name) ==
    <<"m","a","c","O","S"," ","s","h","o","r","t","c","u","t",":"," ">> \o name

Shortcut(name) ==
    [name |-> name, description |-> descriptionOf(name),
     category |-> categorizeShortcut(name)]

\* the Shortcut[] built from the lines of `shortcuts list`
discovered(names) == [i \in 1..Len(names) |-> Shortcut(names[i])]

\* a ShortcutFilter; given = FALSE is the call without a filter
Filter(given, category, search, limit) ==
    [given |-> given, category |-> category, search |-> search, limit |-> limit]

NoFilter == Filter(FALSE, "", <<>>, 0)

applyFilter(shortcuts, filter) ==
    IF ~filter.given THEN shortcuts
    ELSE LET byCategory ==
                 IF filter.category # ""
                 THEN LET sameCategory(sc) == sc.category = filter.category
                      IN  SelectSeq(shortcuts, sameCategory)
                 ELSE shortcuts
             bySearch ==
                 IF filter.search # <<>>
                 THEN LET searchLower == toLowerCase(filter.search)
                          found(sc) ==
                              \/ includes(toLowerCase(sc.name), searchLower)
                              \/ includes(toLowerCase(sc.description), searchLower)
                      IN  SelectSeq(byCategory, found)
                 ELSE byCategory
         IN  IF filter.limit > 0 THEN sliceFirst(bySearch, filter.limit) ELSE bySearch

\* a category argument that reads like a category followed by a search part
UtilitiesSearchHello == "utilities|search:hello"

\* the characters of the cache type and of the category values
charsOf(word) ==
    IF word = "shortcuts" THEN <<"s","h","o","r","t","c","u","t","s">>
    ELSE IF word = "communication" THEN <<"c","o","m","m","u","n","i","c","a","t","i","o","n">>
    ELSE IF word = "media" THEN <<"m","e","d","i","a">>
    ELSE IF word = "productivity" THEN <<"p","r","o","d","u","c","t","i","v","i","t","y">>
    ELSE IF word = "system" THEN <<"s","y","s","t","e","m">>
    ELSE IF word = "utilities" THEN <<"u","t","i","l","i","t","i","e","s">>
    ELSE IF word = UtilitiesSearchHello THEN <<"u","t","i","l","i","t","i","e","s","|","s","e","a","r","c","h",":","h","e","l","l","o">>
    ELSE <<>>

Digits == <<"0", "1", "2", "3", "4", "5", "6", "7", "8", "9">>

\* a number in a template literal
RECURSIVE toString(_)
toString(n) ==
    IF n < 10 THEN <<Digits[n + 1]>>
    ELSE toString(n \div 10) \o <<Digits[(n % 10) + 1]>>

\* parts.join('|'): the type and the parts the filter gives
getCacheKey(type, filter) ==
    IF ~filter.given THEN charsOf(type)
    ELSE charsOf(type)
         \o (IF filter.category # ""
             THEN <<"|","c","a","t",":">> \o charsOf(filter.category) ELSE <<>>)
         \o (IF filter.search # <<>>
             THEN <<"|","s","e","a","r","c","h",":">> \o filter.search ELSE <<>>)
         \o (IF filter.limit # 0
             THEN <<"|","l","i","m","i","t",":">> \o toString(filter.limit) ELSE <<>>)

isCacheExpired_atTtl(entry) == now - entry.timestamp >= entry.ttl

isCacheExpired(entry) == now - entry.timestamp > entry.ttl

CacheEntry(data) == [data |-> data, timestamp |-> now, ttl |-> config.cacheTimeout]

\* Map.has(key)
cached(cache, key) == key \in DOMAIN cache

\* Map.set(key, entry)
cacheSet(cache, key, entry) ==
    [k \in DOMAIN cache \cup {key} |-> IF k = key THEN entry ELSE cache[k]]

EmptyCache == [k \in {} |-> 0]

\* history: one cache lookup: which cache, whether it held an entry for the
\* key, the entry's age at the lookup, and whether the lookup was a hit
Lookup(cache, present, age, hit) ==
    [cache |-> cache, present |-> present, age |-> age, hit |-> hit]

\* the state of the manager: both caches and the counters
managerState ==
    [shortcutsCache |-> shortcutsCache, infoCache |-> infoCache, cacheStats |-> cacheStats]

hit(ms) == [ms EXCEPT !.cacheStats.hits = @ + 1]
\* a miss that is not counted
miss_uncounted(ms) == ms
miss(ms) == [ms EXCEPT !.cacheStats.misses = @ + 1]

\* listShortcuts(filter) up to `await this.discoverShortcuts()`:
\* a hit returns the filtered cached list, a miss starts a discovery;
\* calls is history: the outcome of each listShortcuts and getShortcutInfo
\* call made, this one and the ones it makes
listShortcutsBegin(ms, filter) ==
    LET cacheKey == getCacheKey("shortcuts", filter)
        present == cached(ms.shortcutsCache, cacheKey)
        age == IF present THEN now - ms.shortcutsCache[cacheKey].timestamp ELSE 0
    IN  IF /\ config.enableCache
           /\ present
           /\ ~isCacheExpired(ms.shortcutsCache[cacheKey])
        THEN [hit |-> TRUE, ms |-> hit(ms),
              value |-> applyFilter(ms.shortcutsCache[cacheKey].data, filter),
              lookups |-> <<Lookup("shortcuts", TRUE, age, TRUE)>>,
              calls |-> <<"hit">>]
        ELSE [hit |-> FALSE, ms |-> miss(ms), value |-> <<>>,
              lookups |-> IF config.enableCache
                          THEN <<Lookup("shortcuts", present, age, FALSE)>> ELSE <<>>,
              calls |-> <<"miss">>]

\* a listShortcuts that stores the list it returns, not the list it discovered
listShortcutsEnd_storesFiltered(ms, filter, shortcuts) ==
    [ms |-> IF config.enableCache
            THEN [ms EXCEPT !.shortcutsCache =
                     cacheSet(@, getCacheKey("shortcuts", filter),
                              CacheEntry(applyFilter(shortcuts, filter)))]
            ELSE ms,
     value |-> applyFilter(shortcuts, filter)]

\* listShortcuts(filter) from the discovery's result on
listShortcutsEnd(ms, filter, shortcuts) ==
    [ms |-> IF config.enableCache
            THEN [ms EXCEPT !.shortcutsCache =
                     cacheSet(@, getCacheKey("shortcuts", filter), CacheEntry(shortcuts))]
            ELSE ms,
     value |-> applyFilter(shortcuts, filter)]

\* a ShortcutInfo, or null (present = FALSE)
ShortcutInfo(shortcut) ==
    [present |-> TRUE, name |-> shortcut.name, category |-> shortcut.category,
     actionCount |-> 1, isSystemShortcut |-> FALSE]

NullInfo == [present |-> FALSE, name |-> NoName, category |-> "",
             actionCount |-> 0, isSystemShortcut |-> FALSE]

getShortcutInfoEnd_anyName(ms, name, shortcuts) ==
    IF shortcuts # <<>>
    THEN LET info == ShortcutInfo(shortcuts[1])
         IN  [info |-> info,
              ms |-> IF config.enableCache
                     THEN [ms EXCEPT !.infoCache = cacheSet(@, name, CacheEntry(info))]
                     ELSE ms]
    ELSE [info |-> NullInfo, ms |-> ms]

\* getShortcutInfo(name) from `shortcuts.find` on
getShortcutInfoEnd(ms, name, shortcuts) ==
    IF \E i \in 1..Len(shortcuts) : shortcuts[i].name = name
    THEN LET shortcut == shortcuts[CHOOSE i \in 1..Len(shortcuts) :
                                       /\ shortcuts[i].name = name
                                       /\ \A j \in 1..(i - 1) : shortcuts[j].name # name]
             info == ShortcutInfo(shortcut)
         IN  [info |-> info,
              ms |-> IF config.enableCache
                     THEN [ms EXCEPT !.infoCache = cacheSet(@, name, CacheEntry(info))]
                     ELSE ms]
    ELSE [info |-> NullInfo, ms |-> ms]

\* getShortcutInfo(name) up to the discovery, if it needs one (waiting = TRUE)
getShortcutInfoBegin(ms, name) ==
    LET present == cached(ms.infoCache, name)
        age == IF present THEN now - ms.infoCache[name].timestamp ELSE 0
    IN  IF config.enableCache /\ present /\ ~isCacheExpired(ms.infoCache[name])
        THEN [waiting |-> FALSE, info |-> ms.infoCache[name].data, ms |-> hit(ms),
              lookups |-> <<Lookup("info", TRUE, age, TRUE)>>,
              calls |-> <<"hit">>]
        ELSE LET mine == IF config.enableCache
                         THEN <<Lookup("info", present, age, FALSE)>> ELSE <<>>
                 l == listShortcutsBegin(miss(ms), NoFilter)
             IN  IF l.hit
                 THEN LET g == getShortcutInfoEnd(l.ms, name, l.value)
                      IN  [waiting |-> FALSE, info |-> g.info, ms |-> g.ms,
                           lookups |-> mine \o l.lookups,
                           calls |-> <<"miss">> \o l.calls]
                 ELSE [waiting |-> TRUE, info |-> NullInfo, ms |-> l.ms,
                       lookups |-> mine \o l.lookups,
                       calls |-> <<"miss">> \o l.calls]

\* Map.size of both caches
cacheSize(ms) ==
    Cardinality(DOMAIN ms.shortcutsCache) + Cardinality(DOMAIN ms.infoCache)

\* hits / totalRequests as the fraction <<hits, totalRequests>>; 0 is <<0, 1>>
getCacheStats(ms) ==
    LET totalRequests == ms.cacheStats.hits + ms.cacheStats.misses IN
    [size |-> cacheSize(ms),
     hits |-> ms.cacheStats.hits,
     misses |-> ms.cacheStats.misses,
     hitRate |-> IF totalRequests > 0 THEN <<ms.cacheStats.hits, totalRequests>>
                 ELSE <<0, 1>>]

\* clearCache(), and cleanup(), which only calls it
clearCache(ms) ==
    [shortcutsCache |-> [k \in {} |-> 0], infoCache |-> [k \in {} |-> 0],
     cacheStats |-> [hits |-> 0, misses |-> 0]]

\* String.prototype.replace(/"/g, '\\"')
RECURSIVE escapeQuotes(_)
escapeQuotes(t) ==
    IF t = <<>> THEN <<>>
    ELSE IF Head(t) = "\"" THEN <<"\\", "\"">> \o escapeQuotes(Tail(t))
         ELSE <<Head(t)>> \o escapeQuotes(Tail(t))

prepareInput(input) == escapeQuotes(input.text)

\* String.prototype.trim
RECURSIVE trimStart(_)
trimStart(t) == IF t # <<>> /\ isSpace(Head(t)) THEN trimStart(Tail(t)) ELSE t
RECURSIVE trimEnd(_)
trimEnd(t) ==
    IF t # <<>> /\ isSpace(t[Len(t)]) THEN trimEnd(SubSeq(t, 1, Len(t) - 1)) ELSE t
trim(t) == trimEnd(trimStart(t))

\* outputs: a string, or the value JSON.parse gave
StringOutput(t) == [kind |-> "string", text |-> t]
JsonOutput(t) == [kind |-> "json", text |-> t]
NoOutput == [kind |-> "undefined", text |-> <<>>]

\* what the external `shortcuts run` may print
PlainStdout == <<"o","k","\n">>
SecretStdout == <<"k","e","y","=","a","1","\n">>
JsonStdout == <<"4","2">>
Stdouts == {PlainStdout, SecretStdout, JsonStdout}

\* the texts of the model JSON.parse accepts
isJson(t) == t = JsonStdout

parseOutput(output) ==
    IF isJson(output) THEN JsonOutput(output) ELSE StringOutput(trim(output))


\* an ExecutionResult
ExecutionResult(success, output, error, executionTime) ==
    [success |-> success, output |-> output, error |-> error,
     executionTime |-> executionTime]

NoResult == ExecutionResult(FALSE, NoOutput, "", 0)

\* one executeShortcut call: the phases it went through, the timer and the
\* promise of executeWithTimeout, the external process, and what it returned
NoExec ==
    [phases |-> <<>>, startTime |-> 0, timeoutMs |-> 0,
     timer |-> "unset", deadline |-> 0,
     process |-> "none", promise |-> "none", stdout |-> <<>>,
     commandInput |-> <<>>,
     invocations |-> 0, results |-> 0, result |-> NoResult]

\* handleRunShortcut builds the ExecutionRequest; executeShortcut starts
executeShortcutBegin(request) ==
    [NoExec EXCEPT !.phases = <<"Pending", "Running">>,
                   !.startTime = now,
                   !.timeoutMs = IF request.timeout # 0 THEN request.timeout
                                 ELSE config.defaultTimeout]

\* executeShortcut builds the command; executeWithTimeout arms the timer and
\* starts the external `shortcuts run`
startInvocation(e, request) ==
    [e EXCEPT !.commandInput = IF request.input.kind = "undefined" THEN <<>>
                               ELSE prepareInput(request.input),
              !.timer = "armed",
              !.deadline = now + e.timeoutMs,
              !.process = "running",
              !.promise = "pending",
              !.invocations = @ + 1]

\* a promise settles once: later resolve and reject calls change nothing
settle(promise, outcome) == IF promise = "pending" THEN outcome ELSE promise

\* the setTimeout callback
onTimer(e) ==
    [e EXCEPT !.timer = "fired",
              !.promise = settle(@, "timeout")]

\* the external process exits: the .then and .catch callbacks
onExit_keepTimer(e, outcome) ==
    [e EXCEPT !.process = "exited",
              !.stdout = IF e.promise = "pending" /\ outcome.ok THEN outcome.stdout ELSE @,
              !.promise = settle(@, IF outcome.ok THEN "resolved" ELSE "failed")]

onExit_resettles(e, outcome) ==
    [e EXCEPT !.process = "exited",
              !.timer = IF @ = "armed" THEN "cleared" ELSE @,
              !.stdout = IF outcome.ok THEN outcome.stdout ELSE @,
              !.promise = IF outcome.ok THEN "resolved" ELSE "failed"]

onExit(e, outcome) ==
    [e EXCEPT !.process = "exited",
              !.timer = IF @ = "armed" THEN "cleared" ELSE @,
              !.stdout = IF e.promise = "pending" /\ outcome.ok THEN outcome.stdout ELSE @,
              !.promise = settle(@, IF outcome.ok THEN "resolved" ELSE "failed")]

\* executeShortcut returns: the phase the call ends in and its ExecutionResult
returnResult(e, phase, result) ==
    [e EXCEPT !.phases = Append(@, phase),
              !.results = @ + 1,
              !.result = result]

\* the error classes executeShortcut and executeWithTimeout throw
MCPError(code, message) == [code |-> code, message |-> message]
ShortcutNotFoundError == MCPError("SHORTCUT_NOT_FOUND", "Shortcut not found")
ExecutionError == MCPError("EXECUTION_ERROR", "Command failed")
TimeoutError == MCPError("EXECUTION_TIMEOUT", "Execution timeout")

\* error instanceof Error ? error.message : String(error)
errorMessage(error) == error.message

\* the catch branch of executeShortcut: the result keeps the error's message
failure(e, phase, error) ==
    returnResult(e, phase,
                 ExecutionResult(FALSE, NoOutput, errorMessage(error), now - e.startTime))

\* executeShortcut when getShortcutInfo gave null
notFound(e) == failure(e, "NotFound", ShortcutNotFoundError)

\* a failed or timed-out invocation that is started once more
afterInvocation_retries(e) ==
    IF e.promise = "resolved"
    THEN returnResult(e, "Succeeded",
             ExecutionResult(TRUE, parseOutput(e.stdout), "", now - e.startTime))
    ELSE [failure(e, IF e.promise = "timeout" THEN "TimedOut" ELSE "Failed",
                  IF e.promise = "timeout" THEN TimeoutError ELSE ExecutionError)
             EXCEPT !.invocations = @ + 1, !.process = "running"]

\* executeShortcut resumed by the promise of executeWithTimeout
afterInvocation(e) ==
    IF e.promise = "resolved"
    THEN returnResult(e, "Succeeded",
             ExecutionResult(TRUE, parseOutput(e.stdout), "", now - e.startTime))
    ELSE IF e.promise = "timeout"
    THEN failure(e, "TimedOut", TimeoutError)
    ELSE failure(e, "Failed", ExecutionError)

\* what the external `shortcuts run` does when it ends
Exit(ok, stdout) == [ok |-> ok, stdout |-> stdout]
ExitOutcomes == { Exit(TRUE, t) : t \in Stdouts } \cup { Exit(FALSE, <<>>) }

\* what the external `shortcuts list` prints; failed = TRUE: the command fails
Listing(failed, names) == [failed |-> failed, names |-> names]
ListOutcomes ==
    { Listing(FALSE, <<HelloWorld>>), Listing(FALSE, <<HelloWorld, WorkNotes>>),
      Listing(TRUE, <<>>) }

discoverShortcuts(listing) == discovered(listing.names)

----------------------------------------------------------------------------
(* Configurations *)

Config(allowSystem, blocked, prefixes, enableRateLimit, rateLimit) ==
    [logExecutions |-> TRUE,
     allowSystemShortcuts |-> allowSystem,
     maxInputSize |-> 6,
     enableRateLimit |-> enableRateLimit,
     allowedPrefixes |-> prefixes,
     blockedShortcuts |-> blocked,
     rateLimit |-> rateLimit]

RateLimit(windowMs, maxRequests) == [windowMs |-> windowMs, maxRequests |-> maxRequests]

\* utils/config DEFAULT_CONFIG.security, with the sizes and times scaled down
DefaultConfig == Config(FALSE, {}, <<>>, TRUE, RateLimit(2, 2))

GateConfigs ==
    { Config(sys, blocked, prefixes, erl, rl) :
        sys \in BOOLEAN, blocked \in {{}, {HelloWorld}},
        prefixes \in {<<>>, <<WorkPrefix>>}, erl \in BOOLEAN,
        rl \in {RateLimit(2, 2), RateLimit(3, 1)} }

PolicyConfigs ==
    { Config(sys, blocked, prefixes, TRUE, RateLimit(2, 2)) :
        sys \in BOOLEAN,
        blocked \in {{}, {HelloWorld}, {WorkNotes, MyADMINTool}},
        prefixes \in {<<>>, <<WorkPrefix>>, <<<<"M","y">>, <<"H","e","l","l","o">>>>} }

GateRequests ==
    { Request("", TRUE, "run_shortcut", HelloWorld, NoInput, 0),
      Request("tools/call", FALSE, "", NoName, NoInput, 0),
      Request("tools/list", TRUE, "", NoName, NoInput, 0),
      Request("invalid_method", TRUE, "", NoName, NoInput, 0),
      ToolCall(""), ToolCall("list_shortcuts"), ToolCall("get_shortcut_info"),
      ToolCall("create_shortcut"), ParseShortcut(<<"/","t","h">>) }
    \cup { RunShortcut(n, i) :
             n \in {NoName, HelloWorld, SystemConfiguration},
             i \in {NoInput, StringInput(SmallText), StringInput(DangerousText),
                    StringInput(BigText)} }

----------------------------------------------------------------------------
(* The SecurityManager on its own: synchronous calls and the clock *)

\* the identities of the callers; MCPRequest carries none, and the server
\* talks to one client over its stdio transport
Clients == {"client-1", "client-2"}
StdioClient == "client-1"

\* the last call: for validateRequest the request, who issued it (client), the
\* SecurityResult, and as history the admitted timestamps in the window before
\* the call (prior: of all clients, priorOwn: of this client) and whether the
\* rate limiter denied a request since the last admitted one (denied: after
\* the call, deniedBefore: before it);
\* for validateInput the input (in request) and the ValidationResult;
\* for getAuditLog its arguments (limit) and the entries returned
NoCall == [op |-> "none", request |-> NoRequest, result |-> Allowed,
           allowed |-> FALSE, prior |-> 0, at |-> 0,
           client |-> "", priorOwn |-> 0, denied |-> FALSE, deniedBefore |-> FALSE,
           validation |-> [valid |-> TRUE, errors |-> <<>>, warnings |-> <<>>],
           limit |-> <<>>, returned |-> <<>>,
           trackerBefore |-> [c \in {} |-> <<>>],
           argument |-> NoInput, value |-> NoInput, again |-> FALSE,
           cleared |-> FALSE,
           stats |-> [size |-> 0, hits |-> 0, misses |-> 0, hitRate |-> <<0, 1>>]]

\* history: the admitted timestamps still inside the window at the clock's time
inWindow == { i \in DOMAIN admitted : now - admitted[i] < config.rateLimit.windowMs }

\* a CallToolResult: an error text, the output of a run, the names of a
\* listing or the info of a shortcut
Response(isError, kind, error, output, names) ==
    [isError |-> isError, kind |-> kind, error |-> error, output |-> output,
     names |-> names]

NoResponse == Response(FALSE, "none", "", NoOutput, <<>>)
ErrorResponse(error) == Response(TRUE, "error", error, NoOutput, <<>>)

\* one tools/call request and its handler; lookups, discoveries, discoveredAt,
\* audits and listFailed are history: the cache lookups made for it, the
\* `shortcuts list` commands started for it, when the last of them started,
\* the audit entries written for it, and whether its `shortcuts list` failed;
\* calls and listed too: the outcomes of the manager's lookup calls made for
\* it since the cache was last cleared, and what the `shortcuts list` of a
\* list_shortcuts request printed
NoCallRecord ==
    [request |-> NoRequest, pc |-> "idle", security |-> Allowed,
     response |-> NoResponse, lookups |-> <<>>, discoveries |-> 0,
     discoveredAt |-> 0, audits |-> 0, listFailed |-> FALSE,
     calls |-> <<>>, listed |-> <<>>]

Calls == 1..MaxCalls

InitCommon ==
    /\ now = 0
    /\ rateLimitTracker = [c \in {} |-> <<>>]
    /\ auditLog = <<>>
    /\ lastCall = NoCall
    /\ admitted = <<>>
    /\ issuers = <<>>
    /\ decisions = [n \in ShortcutNames |-> {}]
    /\ logged = 0
    /\ shortcutsCache = EmptyCache
    /\ infoCache = EmptyCache
    /\ cacheStats = [hits |-> 0, misses |-> 0]
    /\ call = [r \in Calls |-> NoCallRecord]
    /\ exec = [r \in Calls |-> NoExec]

\* time passes
Tick ==
    /\ now < MaxTime
    /\ now' = now + 1
    /\ UNCHANGED <<config, secVars, mgrVars, reqVars>>

\* history: the admitted timestamps of one client still inside the window
inWindowOf(client) == { i \in inWindow : issuers[i] = client }

\* SecurityManager.validateRequest(request), called for a request of client
ValidateRequestCall(client, request) ==
    \E v \in {validateRequest(request)} :
    /\ rateLimitTracker' = v.tracker
    /\ admitted' = IF v.counted THEN Append(admitted, now) ELSE admitted
    /\ issuers' = IF v.counted THEN Append(issuers, client) ELSE issuers
    /\ lastCall' = [NoCall EXCEPT
                       !.op = "validateRequest", !.request = request,
                       !.result = v.result, !.allowed = v.result.allowed,
                       !.prior = Cardinality(inWindow), !.at = now,
                       !.client = client,
                       !.priorOwn = Cardinality(inWindowOf(client)),
                       !.deniedBefore = lastCall.denied,
                       !.trackerBefore = rateLimitTracker,
                       !.denied =
                           IF v.counted THEN FALSE
                           ELSE IF v.result.reason = "Rate limit exceeded" THEN TRUE
                           ELSE lastCall.denied]
    /\ UNCHANGED <<config, now, auditLog, decisions, logged, mgrVars, reqVars>>

GateInputs ==
    { NoInput, StringInput(<<>>), StringInput(SmallText), StringInput(DangerousText),
      StringInput(BigText) }

\* SecurityManager.validateInput(input)
ValidateInputCall(input) ==
    /\ lastCall' = [NoCall EXCEPT !.op = "validateInput",
                                  !.request = RunShortcut(NoName, input),
                                  !.validation = validateInput(input),
                                  !.denied = lastCall.denied]
    /\ UNCHANGED <<config, now, rateLimitTracker, auditLog, admitted, issuers, decisions,
                   logged, mgrVars, reqVars>>

InitGate == InitCommon /\ config \in GateConfigs

NextGate ==
    \/ Tick
    \/ \E request \in GateRequests : ValidateRequestCall(StdioClient, request)
    \/ \E input \in GateInputs : ValidateInputCall(input)

SpecGate == InitGate /\ [][NextGate]_vars

----------------------------------------------------------------------------
(* The SecurityManager called for the requests of several clients *)

ClientConfigs ==
    { Config(FALSE, {}, <<>>, TRUE, rl) : rl \in {RateLimit(2, 2), RateLimit(3, 1)} }

ClientRequests == { ToolCall("list_shortcuts"), RunShortcut(HelloWorld, NoInput) }

InitClients == InitCommon /\ config \in ClientConfigs

NextClients ==
    \/ Tick
    \/ \E client \in Clients : \E request \in ClientRequests :
           ValidateRequestCall(client, request)

SpecClients == InitClients /\ [][NextClients]_vars

----------------------------------------------------------------------------
(* The allow/block policy on its own *)

\* SecurityManager.isShortcutAllowed(shortcutName)
IsShortcutAllowedCall(shortcutName) ==
    LET a == isShortcutAllowed(shortcutName) IN
    /\ lastCall' = [NoCall EXCEPT !.op = "isShortcutAllowed",
                                  !.request = RunShortcut(shortcutName, NoInput),
                                  !.allowed = a]
    /\ decisions' = [decisions EXCEPT ![shortcutName] = @ \cup {a}]
    /\ UNCHANGED <<config, now, rateLimitTracker, auditLog, admitted, issuers, logged, mgrVars, reqVars>>

InitPolicy == InitCommon /\ config \in PolicyConfigs

NextPolicy == \E shortcutName \in ShortcutNames : IsShortcutAllowedCall(shortcutName)

SpecPolicy == InitPolicy /\ [][NextPolicy]_vars

----------------------------------------------------------------------------
(* The audit log on its own *)

\* the arguments of the k-th logExecution call after a clearAuditLog
auditName(k) == IF k % 3 = 0 THEN SystemConfiguration ELSE HelloWorld
auditDetails(k) ==
    ExecutionDetails(NoInput, IF k % 5 = 0 THEN LongExecutionMs + 1 ELSE 1, k % 2 = 1)

\* SecurityManager.logExecution(shortcutName, details)
LogExecutionCall ==
    /\ logged < MaxAuditEntries + MaxOverflow
    /\ auditLog' = logExecution(auditName(logged + 1), auditDetails(logged + 1))
    /\ logged' = logged + 1
    /\ lastCall' = [NoCall EXCEPT !.op = "logExecution"]
    /\ UNCHANGED <<config, now, rateLimitTracker, admitted, issuers, decisions, mgrVars, reqVars>>

\* SecurityManager.clearAuditLog()
ClearAuditLog ==
    /\ auditLog' = <<>>
    /\ logged' = 0
    /\ lastCall' = [NoCall EXCEPT !.op = "clearAuditLog"]
    /\ UNCHANGED <<config, now, rateLimitTracker, admitted, issuers, decisions, mgrVars, reqVars>>

\* the limits getAuditLog is called with: omitted, 0, 2 and the log's capacity
AuditLimits == {<<>>, <<0>>, <<2>>, <<MaxAuditEntries>>}

\* SecurityManager.getAuditLog(limit)
GetAuditLogCall(args) ==
    /\ lastCall' = [NoCall EXCEPT !.op = "getAuditLog", !.limit = args,
                                  !.returned = getAuditLog(args)]
    /\ UNCHANGED <<config, now, rateLimitTracker, auditLog, admitted, issuers, decisions,
                   logged, mgrVars, reqVars>>

InitAudit == InitCommon /\ config = DefaultConfig

NextAudit ==
    \/ LogExecutionCall
    \/ ClearAuditLog
    \/ \E args \in AuditLimits : GetAuditLogCall(args)

SpecAudit == InitAudit /\ [][NextAudit]_vars

----------------------------------------------------------------------------
(* sanitizeInput and filterOutput, called on texts put together from the    *)
(* pieces their patterns are about.                                        *)

\* the most pieces a text is put together from
MaxPieces == 3

\* pieces of the vectors sanitizeInput removes
InputPieces ==
    { <<"j","a","v","a">>,
      <<"s","c","r","i","p","t",":">>,
      <<"j","a","v","a","s","c","r","i","p","t",":">>,
      <<"J","a","v","a","S","c","r","i","p","t",":">>,
      <<"v","b">>,
      <<"v","b","s","c","r","i","p","t",":">>,
      <<"<","s","c","r">>,
      <<"<","s","c","r","i","p","t",">","<","/","s","c","r","i","p","t",">">>,
      <<"i","p","t",">","x","<","/","s","c","r","i","p","t",">">>,
      <<"<","s","c","r","i","p","t",">","x","<","/","s","c","r","i","p","t",">">>,
      <<"o">>,
      <<"o","n","x","=">>,
      <<"n","x","=">>,
      <<"o","n","l","o","a","d"," ","=">>,
      <<"x">>,
      <<" ">> }

\* pieces of the credentials filterOutput redacts
OutputPieces ==
    { <<"p","a","s","s","w","o","r","d">>,
      <<"t","o","k","e","n">>,
      <<"k","e","y">>,
      <<"s","e","c","r","e","t">>,
      <<"K","E","Y">>,
      <<"=">>,
      <<":"," ">>,
      <<" ">>,
      <<"a","1">>,
      <<"\n">>,
      <<"t","o","k","e","n","=","a","1">>,
      <<"[","R","E","D","A","C","T","E","D","]">>,
      <<"k","e","y","=">> }

RECURSIVE join(_)
join(pieces) == IF pieces = <<>> THEN <<>> ELSE Head(pieces) \o join(Tail(pieces))

textsOf(pieces) == { join(ps) : ps \in UNION { [1..n -> pieces] : n \in 0..MaxPieces } }

\* an object with a string and a nested object in it
nested(t1, t2) == ObjectInput(<<StringInput(t1), ObjectInput(<<StringInput(t2)>>)>>)

NestedInputs ==
    { nested(t1, t2) : t1, t2 \in {<<"x">>, <<"o","n","x","=">>, <<"o","o","n","x","=","n","x","=">> } }

Texts ==
    { StringInput(t) : t \in textsOf(InputPieces) \cup textsOf(OutputPieces) }
        \cup NestedInputs \cup {NoInput}

\* SecurityManager.sanitizeInput(input), on the text the state starts with
SanitizeInputCall ==
    /\ lastCall.op = "text"
    /\ lastCall' = [NoCall EXCEPT !.op = "sanitizeInput",
                                  !.argument = lastCall.argument,
                                  !.value = sanitizeInput(lastCall.argument)]
    /\ UNCHANGED <<config, now, rateLimitTracker, auditLog, admitted, issuers, decisions,
                   logged, mgrVars, reqVars>>

\* SecurityManager.filterOutput(output), on the text the state starts with
\* or on what the last call of filterOutput returned
FilterOutputCall ==
    /\ lastCall.op \in {"text", "filterOutput"}
    /\ LET output == IF lastCall.op = "text" THEN lastCall.argument ELSE lastCall.value
       IN  lastCall' = [NoCall EXCEPT !.op = "filterOutput",
                                     !.argument = output,
                                     !.value = filterOutput(output),
                                     !.again = (lastCall.op = "filterOutput")]
    /\ UNCHANGED <<config, now, rateLimitTracker, auditLog, admitted, issuers, decisions,
                   logged, mgrVars, reqVars>>

InitFilters ==
    /\ config = DefaultConfig
    /\ now = 0
    /\ rateLimitTracker = [c \in {} |-> <<>>]
    /\ auditLog = <<>>
    /\ \E input \in Texts : lastCall = [NoCall EXCEPT !.op = "text", !.argument = input]
    /\ admitted = <<>>
    /\ issuers = <<>>
    /\ decisions = [n \in ShortcutNames |-> {}]
    /\ logged = 0
    /\ shortcutsCache = EmptyCache
    /\ infoCache = EmptyCache
    /\ cacheStats = [hits |-> 0, misses |-> 0]
    /\ call = [r \in Calls |-> NoCallRecord]
    /\ exec = [r \in Calls |-> NoExec]

NextFilters ==
    \/ SanitizeInputCall
    \/ FilterOutputCall

SpecFilters == InitFilters /\ [][NextFilters]_vars


----------------------------------------------------------------------------
(* ShortcutMCPServer: the tools/call handler.  A handler runs without       *)
(* interruption up to the next wait for an external process or a timer:    *)
(* these are the only points where another request's handler can run.      *)

\* args?.limit || 50
DefaultListLimit == 50

\* the ShortcutFilter handleListShortcuts builds
listFilter(request) ==
    Filter(TRUE, request.filter.category, request.filter.search,
           IF request.filter.limit # 0 THEN request.filter.limit ELSE DefaultListLimit)

HandledTools ==
    {"list_shortcuts", "run_shortcut", "get_shortcut_info", "create_shortcut",
     "delete_shortcut", "list_templates", "create_simple_shortcut"}

\* the handler's dispatch: throw on a rejection, else switch on the tool name
route_ignoresSecurity(request, securityResult) ==
    IF request.tool \in HandledTools THEN request.tool ELSE "unknown"

route(request, securityResult) ==
    IF ~securityResult.allowed THEN "reject"
    ELSE IF request.tool \in HandledTools THEN request.tool
    ELSE "unknown"

\* the response handleRunShortcut gives for an ExecutionResult
runResponse(result) ==
    IF ~result.success
    THEN ErrorResponse(result.error)
    ELSE Response(FALSE, "run", "",
                  IF result.output.text # <<>> THEN result.output ELSE NoOutput, <<>>)

namesOf(shortcuts) == [i \in 1..Len(shortcuts) |-> shortcuts[i].name]

listResponse(shortcuts) == Response(FALSE, "list", "", NoOutput, namesOf(shortcuts))

infoResponse(info) ==
    IF ~info.present THEN ErrorResponse("Shortcut not found")
    ELSE Response(FALSE, "info", "", NoOutput, <<info.name>>)

SetManager(ms) ==
    /\ shortcutsCache' = ms.shortcutsCache
    /\ infoCache' = ms.infoCache
    /\ cacheStats' = ms.cacheStats

Respond(r, c, response) ==
    call' = [call EXCEPT ![r] = [c EXCEPT !.pc = "done", !.response = response]]

\* handleRunShortcut from the ExecutionResult on: a failure is thrown, a
\* success is logged and returned
FinishRun(r, c, e) ==
    /\ exec' = [exec EXCEPT ![r] = e]
    /\ IF ~e.result.success
       THEN /\ Respond(r, c, runResponse(e.result))
            /\ UNCHANGED <<auditLog, logged>>
       ELSE /\ auditLog' = logExecution(c.request.name,
                               ExecutionDetails(c.request.input,
                                                e.result.executionTime, e.result.success))
            /\ logged' = logged + 1
            /\ Respond(r, [c EXCEPT !.audits = @ + 1], runResponse(e.result))

\* executeShortcut and handleGetShortcutInfo from the result of getShortcutInfo on
ContinueWithInfo(r, c, e, ms, info) ==
    /\ SetManager(ms)
    /\ IF c.request.tool = "run_shortcut"
       THEN IF info.present
            THEN /\ exec' = [exec EXCEPT ![r] = startInvocation(e, c.request)]
                 /\ call' = [call EXCEPT ![r] = [c EXCEPT !.pc = "invoking"]]
                 /\ UNCHANGED <<auditLog, logged>>
            ELSE FinishRun(r, c, notFound(e))
       ELSE /\ Respond(r, c, infoResponse(info))
            /\ UNCHANGED <<exec, auditLog, logged>>

\* the request handler, from the arrival of the request to its first wait
CallTool(r, request) ==
    /\ call[r].pc = "idle"
    /\ \A q \in Calls : q < r => call[q].pc # "idle"
    /\ \E v \in {validateRequest(request)} :
       LET c == [call[r] EXCEPT !.request = request, !.security = v.result]
           to == route(request, v.result)
       IN
       /\ rateLimitTracker' = v.tracker
       /\ admitted' = IF v.counted THEN Append(admitted, now) ELSE admitted
       /\ issuers' = IF v.counted THEN Append(issuers, StdioClient) ELSE issuers
       /\ IF to = "reject"
          THEN /\ Respond(r, c, ErrorResponse(v.result.reason))
               /\ UNCHANGED <<mgrVars, exec, auditLog, logged>>
          ELSE IF to = "list_shortcuts"
          THEN \E l \in {listShortcutsBegin(managerState, listFilter(request))} :
               /\ SetManager(l.ms)
               /\ IF l.hit
                  THEN Respond(r, [c EXCEPT !.lookups = l.lookups, !.calls = l.calls],
                               listResponse(l.value))
                  ELSE call' = [call EXCEPT ![r] =
                                   [c EXCEPT !.pc = "discovering", !.lookups = l.lookups,
                                             !.calls = l.calls,
                                             !.discoveries = @ + 1,
                                             !.discoveredAt = now]]
               /\ UNCHANGED <<exec, auditLog, logged>>
          ELSE IF to \in {"run_shortcut", "get_shortcut_info"}
          THEN IF Len(request.name) = 0
               THEN /\ Respond(r, c, ErrorResponse("Shortcut name is required"))
                    /\ UNCHANGED <<mgrVars, exec, auditLog, logged>>
               ELSE IF to = "run_shortcut" /\ ~isShortcutAllowed(request.name)
               THEN /\ Respond(r, c, ErrorResponse("Shortcut is not allowed"))
                    /\ UNCHANGED <<mgrVars, exec, auditLog, logged>>
               ELSE \E g \in {getShortcutInfoBegin(managerState, request.name)} :
                    LET e == IF to = "run_shortcut" THEN executeShortcutBegin(request)
                             ELSE exec[r]
                        cl == [c EXCEPT !.lookups = g.lookups, !.calls = g.calls]
                    IN  IF g.waiting
                        THEN /\ SetManager(g.ms)
                             /\ exec' = [exec EXCEPT ![r] = e]
                             /\ call' = [call EXCEPT ![r] =
                                            [cl EXCEPT !.pc = "discovering",
                                                       !.discoveries = @ + 1,
                                                       !.discoveredAt = now]]
                             /\ UNCHANGED <<auditLog, logged>>
                        ELSE ContinueWithInfo(r, cl, e, g.ms, g.info)
          ELSE /\ Respond(r, c, Response(FALSE, "builder", "", NoOutput, <<>>))
               /\ UNCHANGED <<mgrVars, exec, auditLog, logged>>
    /\ UNCHANGED <<config, now, lastCall, decisions>>

\* the external `shortcuts list` ends: discoverShortcuts, listShortcuts and
\* the handler that waited for it resume
DiscoveryDone(r, listing) ==
    /\ call[r].pc = "discovering"
    /\ LET c == call[r] IN
       IF c.request.tool = "list_shortcuts"
       THEN /\ IF listing.failed
               THEN /\ Respond(r, [c EXCEPT !.listFailed = TRUE],
                               ErrorResponse("Failed to list shortcuts"))
                    /\ UNCHANGED mgrVars
               ELSE \E l \in {listShortcutsEnd(managerState, listFilter(c.request),
                                               discoverShortcuts(listing))} :
                    /\ SetManager(l.ms)
                    /\ Respond(r, [c EXCEPT !.listed = <<listing.names>>],
                               listResponse(l.value))
            /\ UNCHANGED <<exec, auditLog, logged>>
       ELSE IF listing.failed
            THEN ContinueWithInfo(r, [c EXCEPT !.listFailed = TRUE], exec[r],
                                  managerState, NullInfo)
            ELSE \E l \in {listShortcutsEnd(managerState, NoFilter,
                                            discoverShortcuts(listing))} :
                 \E g \in {getShortcutInfoEnd(l.ms, c.request.name, l.value)} :
                     ContinueWithInfo(r, c, exec[r], g.ms, g.info)
    /\ UNCHANGED <<config, now, rateLimitTracker, lastCall, admitted, issuers, decisions>>

\* executeWithTimeout's promise was settled by this event: executeShortcut
\* and handleRunShortcut resume; otherwise only the callback ran
Resume(r, e) ==
    IF e.promise # exec[r].promise
    THEN FinishRun(r, call[r], afterInvocation(e))
    ELSE /\ exec' = [exec EXCEPT ![r] = e]
         /\ UNCHANGED <<call, auditLog, logged>>

\* the external `shortcuts run` ends
ExecDone(r, outcome) ==
    /\ exec[r].process = "running"
    /\ Resume(r, onExit(exec[r], outcome))
    /\ UNCHANGED <<config, now, rateLimitTracker, lastCall, admitted, issuers, decisions, mgrVars>>

\* the timer of executeWithTimeout fires
TimerFire(r) ==
    /\ exec[r].timer = "armed"
    /\ now >= exec[r].deadline
    /\ Resume(r, onTimer(exec[r]))
    /\ UNCHANGED <<config, now, rateLimitTracker, lastCall, admitted, issuers, decisions, mgrVars>>

\* validateConfig: maxExecutionTime and defaultTimeout are at least 1000 ms,
\* the unit of the model's clock
MinTimeout == 1

\* a timeout argument above the configured maxExecutionTime
LongTimeout == 3

\* security and shortcuts settings, with the sizes and times scaled down
ServerConfig(enableRateLimit, enableCache) ==
    [Config(FALSE, {}, <<>>, enableRateLimit, RateLimit(2, 1))
        EXCEPT !.maxInputSize = Len(ScriptText)]
    @@ [enableCache |-> enableCache, cacheTimeout |-> 1,
        defaultTimeout |-> MinTimeout, maxExecutionTime |-> 2]

ServerConfigs == { ServerConfig(erl, cache) : erl \in BOOLEAN, cache \in BOOLEAN }

ServerRequests ==
    { RunShortcut(HelloWorld, NoInput),
      RunShortcut(WorkNotes, StringInput(SmallText)),
      RunShortcut(SystemConfiguration, NoInput),
      RunShortcut(HelloWorld, StringInput(BigText)),
      [RunShortcut(HelloWorld, StringInput(ScriptText)) EXCEPT !.timeout = LongTimeout],
      ListShortcuts(NoFilterArgs),
      GetShortcutInfo(HelloWorld),
      ToolCall("create_shortcut") }

Init == InitCommon /\ config \in ServerConfigs

Next ==
    \/ Tick
    \/ \E r \in Calls : \E request \in ServerRequests : CallTool(r, request)
    \/ \E r \in Calls : \E listing \in ListOutcomes : DiscoveryDone(r, listing)
    \/ \E r \in Calls : \E outcome \in ExitOutcomes : ExecDone(r, outcome)
    \/ \E r \in Calls : TimerFire(r)

Spec == Init /\ [][Next]_vars

----------------------------------------------------------------------------
(* The shortcut cache: lookups made for list_shortcuts and                  *)
(* get_shortcut_info requests, clearCache and getCacheStats.               *)

Hello == <<"h","e","l","l","o">>

\* list_shortcuts with no argument, with a category and a search text, and
\* with a category that reads like the two; get_shortcut_info
CacheRequests ==
    { ListShortcuts(NoFilterArgs),
      ListShortcuts(FilterArgs("utilities", Hello, 0)),
      ListShortcuts(FilterArgs(UtilitiesSearchHello, <<>>, 0)),
      GetShortcutInfo(WorkNotes) }

\* ShortcutManager.clearCache(), or cleanup()
ClearCacheCall ==
    /\ SetManager(clearCache(managerState))
    /\ call' = [r \in Calls |-> [call[r] EXCEPT !.calls = <<>>]]
    /\ lastCall' = [NoCall EXCEPT !.op = "clearCache", !.cleared = TRUE]
    /\ UNCHANGED <<config, now, rateLimitTracker, auditLog, admitted, issuers, decisions,
                   logged, exec>>

\* ShortcutManager.getCacheStats()
GetCacheStatsCall ==
    /\ lastCall' = [NoCall EXCEPT !.op = "getCacheStats", !.cleared = lastCall.cleared,
                                  !.stats = getCacheStats(managerState)]
    /\ UNCHANGED <<config, now, rateLimitTracker, auditLog, admitted, issuers, decisions,
                   logged, mgrVars, reqVars>>

InitCache == InitCommon /\ config \in { ServerConfig(FALSE, cache) : cache \in BOOLEAN }

NextCache ==
    \/ Tick
    \/ \E r \in Calls : \E request \in CacheRequests : CallTool(r, request)
    \/ \E r \in Calls : \E listing \in ListOutcomes : DiscoveryDone(r, listing)
    \/ ClearCacheCall
    \/ GetCacheStatsCall

SpecCache == InitCache /\ [][NextCache]_vars

\* the server with its timers: time passes, and a timer that is due runs its
\* callback; the external commands end when they end, or never
SpecTimers ==
    /\ Init /\ [][Next]_vars
    /\ WF_vars(Tick)
    /\ \A r \in Calls : WF_vars(TimerFire(r))

----------------------------------------------------------------------------
(* Claims *)

\* history: the admitted timestamps inside the window [admitted[i], admitted[i] + W)
admittedFrom(i) ==
    { j \in DOMAIN admitted :
        /\ admitted[i] <= admitted[j]
        /\ admitted[j] - admitted[i] < config.rateLimit.windowMs }

\* C1: with rate limiting enabled, the requests that passed the rate-limit step
\* never number more than maxRequests inside any window of windowMs, and a
\* well-formed request made while maxRequests earlier admitted timestamps t
\* still satisfy now - t < windowMs is rejected with allowed=false, MEDIUM.
\* validateRequest is synchronous, so calls interleave only as whole calls.
C1_RateLimitBound ==
    config.enableRateLimit =>
        /\ \A i \in DOMAIN admitted :
               Cardinality(admittedFrom(i)) <= config.rateLimit.maxRequests
        /\ ( /\ lastCall.op = "validateRequest"
             /\ wellFormed(lastCall.request)
             /\ lastCall.prior >= config.rateLimit.maxRequests )
           => /\ ~lastCall.result.allowed
              /\ lastCall.result.riskLevel = MEDIUM
              /\ lastCall.result.reason = "Rate limit exceeded"

\* a request was denied by the rate limiter with the window full
C1_Witness ==
    /\ config.enableRateLimit
    /\ lastCall.op = "validateRequest"
    /\ wellFormed(lastCall.request)
    /\ lastCall.prior = config.rateLimit.maxRequests
    /\ Len(admitted) > config.rateLimit.maxRequests
    /\ lastCall.result.reason = "Rate limit exceeded"

\* a run_shortcut request that reached the operation-specific policy
reachedPolicy ==
    /\ lastCall.op = "validateRequest"
    /\ wellFormed(lastCall.request)
    /\ lastCall.request.method = "tools/call"
    /\ lastCall.request.tool = "run_shortcut"
    /\ lastCall.result.reason # "Rate limit exceeded"

\* the names of the model that are on the block list or system-level
\* (System Configuration holds "system" and "config", My ADMIN Tool "admin")
disallowedName(name) ==
    \/ name \in config.blockedShortcuts
    \/ ~config.allowSystemShortcuts /\ name \in {SystemConfiguration, MyADMINTool}

oversized(input) == input.kind = "string" /\ Len(input.text) > config.maxInputSize

\* C9: a run_shortcut with both a disallowed name and an input larger than
\* maxInputSize is rejected for the name, never for the input size.
C9_PolicyBeforeInput ==
    ( /\ reachedPolicy
      /\ disallowedName(lastCall.request.name)
      /\ oversized(lastCall.request.input) )
    => /\ ~lastCall.result.allowed
       /\ lastCall.result.reason = "Shortcut is not allowed"

\* a blocked name with an oversized input was validated
C9_Witness ==
    /\ reachedPolicy
    /\ lastCall.request.name \in config.blockedShortcuts
    /\ oversized(lastCall.request.input)
    /\ lastCall.result.reason = "Shortcut is not allowed"

\* the names of the model that start with one of the configured prefixes
hasPrefix(name) ==
    \E i \in 1..Len(config.allowedPrefixes) :
        \/ config.allowedPrefixes[i] = WorkPrefix /\ name = WorkNotes
        \/ config.allowedPrefixes[i] = <<"M","y">> /\ name = MyADMINTool
        \/ config.allowedPrefixes[i] = <<"H","e","l","l","o">> /\ name = HelloWorld

expectedAllowed(name) ==
    ~ \/ name \in config.blockedShortcuts
      \/ ~config.allowSystemShortcuts /\ name \in {SystemConfiguration, MyADMINTool}
      \/ config.allowedPrefixes # <<>> /\ ~hasPrefix(name)

\* C10: isShortcutAllowed(name) is false exactly when name is blocked, or is
\* system-level (lower-cased name contains a system keyword) while system
\* shortcuts are disabled, or matches none of a non-empty prefix list; under
\* the default configuration Hello World is allowed and System Configuration
\* is not; every call for a name gives the same answer.
C10_AllowedExactly ==
    /\ lastCall.op = "isShortcutAllowed"
         => lastCall.allowed = expectedAllowed(lastCall.request.name)
    /\ \A n \in ShortcutNames : Cardinality(decisions[n]) <= 1
    /\ ( /\ config.blockedShortcuts = {} /\ config.allowedPrefixes = <<>>
         /\ ~config.allowSystemShortcuts )
       => /\ TRUE \notin decisions[SystemConfiguration]
          /\ FALSE \notin decisions[HelloWorld]

\* under the default policy both test names were decided, and a name with an
\* upper-case keyword was refused
C10_Witness ==
    /\ config.blockedShortcuts = {} /\ config.allowedPrefixes = <<>>
    /\ ~config.allowSystemShortcuts
    /\ decisions[HelloWorld] = {TRUE}
    /\ decisions[SystemConfiguration] = {FALSE}
    /\ decisions[MyADMINTool] = {FALSE}

accepted(r) == call[r].pc # "idle" /\ call[r].security.allowed
rejected(r) == call[r].pc # "idle" /\ ~call[r].security.allowed
isRun(r) == call[r].request.tool = "run_shortcut"

\* C2: every accepted run_shortcut request has produced exactly one
\* AuditEntry when its handler returns, whatever the outcome.
C2_OneAuditEntry ==
    \A r \in Calls :
        (accepted(r) /\ isRun(r) /\ call[r].pc = "done") => call[r].audits = 1

\* C3: a request validateRequest rejects starts no executeShortcut call and
\* no external invocation, gets no ExecutionResult and no AuditEntry; a
\* run_shortcut of System Configuration with allowSystemShortcuts=false is
\* rejected, with riskLevel HIGH unless the rate limiter denied it first.
C3_RejectedNeverRuns ==
    \A r \in Calls :
        /\ rejected(r) =>
              /\ exec[r] = NoExec
              /\ call[r].audits = 0
              /\ call[r].discoveries = 0
              /\ call[r].pc = "done"
              /\ call[r].response.isError
        /\ ( /\ call[r].pc # "idle" /\ isRun(r)
             /\ call[r].request.name = SystemConfiguration
             /\ ~config.allowSystemShortcuts )
           => /\ rejected(r)
              /\ call[r].security.reason # "Rate limit exceeded"
                   => /\ call[r].security.riskLevel = HIGH
                      /\ call[r].security.reason = "Shortcut is not allowed"

\* System Configuration was rejected with HIGH, and a request with an
\* oversized input was rejected as well
C3_Witness ==
    \E r, q \in Calls :
        /\ rejected(r) /\ isRun(r)
        /\ call[r].request.name = SystemConfiguration
        /\ call[r].security.riskLevel = HIGH
        /\ rejected(q)
        /\ call[q].request.input = StringInput(BigText)

\* C4: the output a successful run_shortcut returns is filterOutput of the
\* output executeShortcut produced.
C4_OutputFiltered ==
    \A r \in Calls :
        (call[r].pc = "done" /\ call[r].response.kind = "run")
        => call[r].response.output = filterOutput(exec[r].result.output)

\* C5: one event decides executeWithTimeout.  If the timer fired, the result
\* is the timeout failure, also after the process ends later; if the process
\* ended first, the timer is cancelled and no timeout is reported; there is
\* never a second result.
C5_OneEventDecides ==
    \A r \in Calls :
        LET e == exec[r] IN
        /\ e.results <= 1
        /\ e.timer = "fired" =>
              /\ e.promise = "timeout"
              /\ e.results = 1
              /\ ~e.result.success
              /\ e.result.error = "Execution timeout"
        /\ (e.process = "exited" /\ e.timer # "fired") =>
              /\ e.timer = "cleared"
              /\ e.promise \in {"resolved", "failed"}
              /\ e.results = 1
              /\ e.result.error # "Execution timeout"
        /\ e.promise = "timeout" => e.timer = "fired"

\* one request timed out and its process ended afterwards; another one's
\* process ended before its timer
C5_Witness ==
    \E r, q \in Calls :
        /\ exec[r].timer = "fired" /\ exec[r].process = "exited"
        /\ exec[q].timer = "cleared" /\ exec[q].result.success

\* every entry the model stores has ttl = config.cacheTimeout
ttlOfEntries == config.cacheTimeout

lastLookup(r) == call[r].lookups[Len(call[r].lookups)]

TerminalPhases == {"Succeeded", "Failed", "TimedOut", "NotFound"}

\* C8: an executeShortcut call goes Pending, Running and then to exactly one
\* terminal phase, with exactly one ExecutionResult that matches it; an
\* accepted run_shortcut whose handler is done has its result (the call did
\* not throw); nothing is added once a terminal phase is reached.
C8_OneTerminalPhase ==
    \A r \in Calls :
        LET e == exec[r] IN
        /\ \/ e.phases = <<>> /\ e.results = 0
           \/ e.phases = <<"Pending", "Running">> /\ e.results = 0
           \/ /\ Len(e.phases) = 3
              /\ SubSeq(e.phases, 1, 2) = <<"Pending", "Running">>
              /\ e.phases[3] \in TerminalPhases
              /\ e.results = 1
              /\ e.result.success <=> e.phases[3] = "Succeeded"
              /\ e.phases[3] = "TimedOut" <=> e.timer = "fired"
              /\ e.phases[3] = "NotFound" <=> e.invocations = 0
        /\ (accepted(r) /\ isRun(r)) =>
              (call[r].pc = "done" <=> Len(e.phases) = 3)

\* a request timed out, its process ended later, and it still is TimedOut
C8_Witness ==
    \E r \in Calls :
        /\ exec[r].phases = <<"Pending", "Running", "TimedOut">>
        /\ exec[r].process = "exited"

\* the last call was validateRequest for a tools/call that passed the
\* structural check and the rate limiter
reachedToolCall ==
    /\ lastCall.op = "validateRequest"
    /\ wellFormed(lastCall.request)
    /\ lastCall.request.method = "tools/call"
    /\ lastCall.result.reason # "Rate limit exceeded"

\* the arguments of the request are valid for its tool
validArguments(request) ==
    request.tool = "run_shortcut" =>
        /\ request.name # NoName
        /\ ~disallowedName(request.name)
        /\ config.allowedPrefixes # <<>> => hasPrefix(request.name)
        /\ ~oversized(request.input)

\* C11: a tools/call naming a tool that a server advertises, with valid
\* arguments, is accepted by validateRequest (so it reaches its handler).
C11_AdvertisedAccepted ==
    ( /\ reachedToolCall
      /\ lastCall.request.tool \in AdvertisedTools \cup PromptAdvertisedTools
      /\ validArguments(lastCall.request) )
    => lastCall.result.allowed

\* C12: a well-formed request made when every recorded timestamp s has
\* now - s >= windowMs (also now - s = windowMs exactly) passes the rate-limit
\* step and is recorded, however many requests were denied before it.
C12_Recovery ==
    ( /\ config.enableRateLimit
      /\ lastCall.op = "validateRequest"
      /\ wellFormed(lastCall.request)
      /\ lastCall.prior = 0 )
    => /\ lastCall.result.reason # "Rate limit exceeded"
       /\ admitted # <<>>
       /\ admitted[Len(admitted)] = lastCall.at

\* after an admitted request and a denied one, a request made exactly
\* windowMs after the admitted one passed
C12_Witness ==
    /\ config.enableRateLimit
    /\ lastCall.op = "validateRequest"
    /\ wellFormed(lastCall.request)
    /\ lastCall.prior = 0
    /\ lastCall.deniedBefore
    /\ Len(admitted) >= 2
    /\ admitted[Len(admitted)] = lastCall.at
    /\ lastCall.at - admitted[Len(admitted) - 1] = config.rateLimit.windowMs

\* the error class of a failed terminal phase
errorOf(phase) ==
    IF phase = "TimedOut" THEN TimeoutError
    ELSE IF phase = "NotFound" THEN ShortcutNotFoundError
    ELSE ExecutionError

\* C13: every failed ExecutionResult carries the code of its error class
\* besides the message: EXECUTION_TIMEOUT for a timer-first outcome,
\* EXECUTION_ERROR for a failed process, SHORTCUT_NOT_FOUND for a missing name.
C13_FailureCarriesCode ==
    \A r \in Calls :
        (exec[r].results = 1 /\ ~exec[r].result.success) =>
            /\ "code" \in DOMAIN exec[r].result
            /\ exec[r].result.code = errorOf(exec[r].phases[3]).code

\* the riskLevel the rejection of a run_shortcut request is expected to have,
\* by the first check the request fails
expectedRisk(request, result) ==
    IF ~wellFormed(request) THEN MEDIUM
    ELSE IF result.reason = "Rate limit exceeded" THEN MEDIUM
    ELSE IF request.method # "tools/call" THEN MEDIUM
    ELSE IF request.name = NoName THEN MEDIUM
    ELSE IF disallowedName(request.name) THEN HIGH
    ELSE IF config.allowedPrefixes # <<>> /\ ~hasPrefix(request.name) THEN MEDIUM
    ELSE HIGH

\* C14: the riskLevel of a rejected run_shortcut follows the reason: HIGH for
\* a blocked or (disabled) system-level name, MEDIUM for a name that only
\* fails the allow-prefix list, MEDIUM for a missing name, a rate-limit
\* denial or a structural failure, HIGH for an oversized input.
C14_RiskByReason ==
    ( /\ lastCall.op = "validateRequest"
      /\ lastCall.request.tool = "run_shortcut"
      /\ ~lastCall.result.allowed )
    => lastCall.result.riskLevel = expectedRisk(lastCall.request, lastCall.result)

\* C16: rate windows are independent per client: a request of a client that
\* has fewer than maxRequests admitted requests of its own inside the window
\* (none at all for a client without a prior window) is not denied by the
\* rate limiter, whatever the other clients issued.
C16_IndependentWindows ==
    ( /\ config.enableRateLimit
      /\ lastCall.op = "validateRequest"
      /\ wellFormed(lastCall.request)
      /\ lastCall.priorOwn < config.rateLimit.maxRequests )
    => lastCall.result.reason # "Rate limit exceeded"

\* C17: with caching enabled, two `shortcuts list` discoveries are never
\* started less than cacheTimeout apart, whatever requests are made.
C17_OneDiscoveryPerTtl ==
    config.enableCache =>
        \A r, q \in Calls :
            (r # q /\ call[r].discoveries > 0 /\ call[q].discoveries > 0
                   /\ call[r].discoveredAt <= call[q].discoveredAt)
            => call[q].discoveredAt - call[r].discoveredAt >= config.cacheTimeout

\* C18: validateInput reports valid=false, with the error INPUT_TOO_LARGE,
\* exactly when the input is larger than maxInputSize; a run_shortcut whose
\* name passes the policy is rejected exactly for such an input, with
\* riskLevel HIGH; a dangerous pattern adds a warning and nothing else.
C18_InputTooLarge ==
    /\ lastCall.op = "validateInput" =>
          LET input == lastCall.request.input
              v == lastCall.validation
          IN  /\ v.valid <=> ~(Len(input.text) > config.maxInputSize)
              /\ v.errors = IF v.valid THEN <<>> ELSE <<"INPUT_TOO_LARGE">>
              /\ input = StringInput(DangerousText) =>
                     /\ v.warnings = <<"POTENTIALLY_DANGEROUS_CONTENT">>
                     /\ v.valid
    /\ ( /\ reachedPolicy
         /\ lastCall.request.name # NoName
         /\ ~disallowedName(lastCall.request.name)
         /\ config.allowedPrefixes # <<>> => hasPrefix(lastCall.request.name) )
       => IF oversized(lastCall.request.input)
          THEN /\ ~lastCall.result.allowed
               /\ lastCall.result.reason = "Input validation failed"
               /\ lastCall.result.riskLevel = HIGH
          ELSE lastCall.result.allowed

\* an allowed name with an oversized input was rejected
C18_Witness ==
    /\ reachedPolicy
    /\ lastCall.request.name = HelloWorld
    /\ lastCall.request.input = StringInput(BigText)
    /\ lastCall.result.reason = "Input validation failed"
    /\ lastCall.result.riskLevel = HIGH

\* C19: when the catalog lacks the requested name, executeShortcut returns
\* success=false with the not-found reason and starts neither the external
\* run nor the timer; the outcome differs from a timeout, a failed run and a
\* security rejection.  An invocation is started only for a resolved name.
C19_NotFoundBeforeInvocation ==
    \A r \in Calls :
        LET e == exec[r] IN
        /\ (Len(e.phases) = 3 /\ e.phases[3] = "NotFound") =>
              /\ e.invocations = 0
              /\ e.timer = "unset" /\ e.process = "none" /\ e.promise = "none"
              /\ ~e.result.success
              /\ e.result.error = ShortcutNotFoundError.message
              /\ e.result.error \notin {TimeoutError.message, ExecutionError.message}
              /\ accepted(r)
              /\ call[r].response = ErrorResponse(ShortcutNotFoundError.message)
        /\ (config.enableCache /\ e.invocations > 0) =>
              /\ call[r].request.name \in DOMAIN infoCache
              /\ infoCache[call[r].request.name].data.name = call[r].request.name
        /\ ( /\ config.enableCache /\ accepted(r) /\ isRun(r) /\ call[r].pc = "done"
             /\ call[r].request.name \notin DOMAIN infoCache )
           => e.phases = <<"Pending", "Running", "NotFound">>

\* Work Notes was requested while the cached catalog holds only Hello World:
\* the call ended NotFound without an invocation
C19_Witness ==
    \E r \in Calls :
        /\ config.enableCache
        /\ call[r].request = RunShortcut(WorkNotes, StringInput(SmallText))
        /\ getCacheKey("shortcuts", NoFilter) \in DOMAIN shortcutsCache
        /\ namesOf(shortcutsCache[getCacheKey("shortcuts", NoFilter)].data) = <<HelloWorld>>
        /\ exec[r].phases = <<"Pending", "Running", "NotFound">>
        /\ exec[r].invocations = 0
        /\ call[r].pc = "done"

\* C20: validateRequest always returns a SecurityResult; it allows a
\* tools/call of list_shortcuts or get_shortcut_info that the rate limiter
\* admits, and rejects with MEDIUM a request without method or params, with a
\* method other than tools/call and tools/list, or with a missing or unknown
\* tool name.
C20_BasicValidation ==
    lastCall.op = "validateRequest" =>
        LET request == lastCall.request
            result == lastCall.result
        IN  /\ result.allowed \in BOOLEAN
            /\ result.riskLevel \in {LOW, MEDIUM, HIGH}
            /\ result.allowed = lastCall.allowed
            /\ ( /\ reachedToolCall
                 /\ request.tool \in {"list_shortcuts", "get_shortcut_info"} )
               => result.allowed /\ result.riskLevel = LOW
            /\ ( \/ ~wellFormed(request)
                 \/ request.method \notin {"tools/call", "tools/list"}
                 \/ /\ request.method = "tools/call"
                    /\ request.tool \notin {"run_shortcut", "list_shortcuts",
                                            "get_shortcut_info"} )
               => ~result.allowed /\ result.riskLevel = MEDIUM

\* the request with an unknown method was rejected by the method check
C20_Witness ==
    /\ lastCall.op = "validateRequest"
    /\ lastCall.request.method = "invalid_method"
    /\ lastCall.request.hasParams
    /\ ~lastCall.result.allowed
    /\ lastCall.result.reason = "Unknown method"
    /\ lastCall.result.riskLevel = MEDIUM

\* a string, or a string somewhere in an object, holds one of the vectors
\* sanitizeInput removes
RECURSIVE holdsVector(_)
holdsVector(input) ==
    IF input.kind = "string"
    THEN \E i \in 1..Len(input.text) :
         \E vector \in {"script", "javascript", "vbscript", "handler"} :
             vectorEnd(input.text, vector, i) # 0
    ELSE IF input.kind = "object"
    THEN \E k \in DOMAIN input.values : holdsVector(input.values[k])
    ELSE FALSE

\* C23: what sanitizeInput returns holds no script block, no javascript: or
\* vbscript: prefix and no on<word>= attribute, in a string or in any string
\* of an object, also when a removal joins the text on its two sides
C23_NoVectorLeft ==
    lastCall.op = "sanitizeInput" => ~holdsVector(lastCall.value)

KeyThenToken == <<"k","e","y","="," ","t","o","k","e","n","=","a","1">>

\* C22: filterOutput is idempotent: called on what it returned, it returns
\* its argument unchanged
C22_FilterIdempotent ==
    (lastCall.op = "filterOutput" /\ lastCall.again) =>
        lastCall.value = lastCall.argument

\* filterOutput was called on a text it had redacted two credentials in
C22_Witness ==
    /\ lastCall.op = "filterOutput" /\ lastCall.again
    /\ lastCall.argument = filterOutput(StringOutput(KeyThenToken))
    /\ lastCall.argument # StringOutput(KeyThenToken)
    /\ lastCall.value = lastCall.argument

\* C21: the input of every `shortcuts run` invocation is the sanitizeInput
\* form of the input the caller gave, quoted for the command line: a script
\* block in the request's input is not in the command
C21_SanitizedInput ==
    \A r \in Calls :
        (exec[r].invocations > 0 /\ call[r].request.input.kind = "string") =>
            exec[r].commandInput = prepareInput(sanitizeInput(call[r].request.input))

\* C28: the timeout armed for an invocation is at least 1000 ms and at most
\* the configured maxExecutionTime, whatever timeout the request asked for
C28_TimeoutInRange ==
    \A r \in Calls :
        exec[r].timer # "unset" =>
            /\ exec[r].timeoutMs >= MinTimeout
            /\ exec[r].timeoutMs <= config.maxExecutionTime

\* the last call was validateRequest
validated == lastCall.op = "validateRequest"

\* the window of the last call's client was full when the call was made
windowFull ==
    config.enableRateLimit /\ lastCall.prior >= config.rateLimit.maxRequests

\* what the method and tool checks alone say about the last call's request
policyResult == validateMethod(lastCall.request.method, lastCall.request)

\* C24: validateRequest checks the structure first, then the rate limit,
\* then the method and the tool: a malformed request is rejected as such
\* and leaves the rate window as it was, also when the window is full; a
\* well-formed request at a full window is rejected by the rate limit
\* whatever the policy says; and a request the policy rejects has had its
\* timestamp appended to the window before
C24_ValidationOrder ==
    validated =>
        IF ~wellFormed(lastCall.request)
        THEN /\ lastCall.result.reason = "Invalid request format"
             /\ rateLimitTracker = lastCall.trackerBefore
        ELSE IF windowFull
        THEN lastCall.result.reason = "Rate limit exceeded"
        ELSE /\ lastCall.result = (IF policyResult.allowed THEN Allowed ELSE policyResult)
             /\ config.enableRateLimit =>
                    /\ Len(requestTimesOf(rateLimitTracker, "default")) = lastCall.prior + 1
                    /\ rateLimitTracker["default"][lastCall.prior + 1] = lastCall.at
                    /\ admitted # <<>> /\ admitted[Len(admitted)] = lastCall.at
             /\ ~config.enableRateLimit => rateLimitTracker = lastCall.trackerBefore

\* a request the policy rejected took the last place of the window
C24_Witness ==
    /\ validated /\ wellFormed(lastCall.request) /\ config.enableRateLimit
    /\ ~policyResult.allowed
    /\ lastCall.result = policyResult
    /\ rateLimitTracker # lastCall.trackerBefore
    /\ Len(rateLimitTracker["default"]) = config.rateLimit.maxRequests

\* C25: a request the rate limiter denies leaves the stored window as it
\* was before the call: no timestamp is added and no trimmed list is stored
C25_DenialKeepsWindow ==
    (validated /\ lastCall.result.reason = "Rate limit exceeded") =>
        rateLimitTracker = lastCall.trackerBefore

\* a second denial in a row, with the window still as the first one left it
C25_Witness ==
    /\ validated /\ lastCall.result.reason = "Rate limit exceeded"
    /\ lastCall.deniedBefore
    /\ rateLimitTracker = lastCall.trackerBefore
    /\ Len(rateLimitTracker["default"]) = config.rateLimit.maxRequests

\* the last call passed the rate-limit step
passedRateLimit ==
    /\ validated /\ wellFormed(lastCall.request) /\ config.enableRateLimit
    /\ lastCall.result.reason # "Rate limit exceeded"

\* C26: every stored list of timestamps holds at most maxRequests entries in
\* non-decreasing order, and from an admitting call on every stored
\* timestamp is less than windowMs before the time of that call
C26_WindowShape ==
    \A c \in DOMAIN rateLimitTracker :
        LET times == rateLimitTracker[c] IN
        /\ Len(times) <= config.rateLimit.maxRequests
        /\ \A i, j \in DOMAIN times : i <= j => times[i] <= times[j]
        /\ passedRateLimit =>
               \A i \in DOMAIN times : lastCall.at - times[i] < config.rateLimit.windowMs

\* an admitting call dropped the timestamps that had left the window
C26_Witness ==
    /\ passedRateLimit
    /\ Len(rateLimitTracker["default"]) = config.rateLimit.maxRequests
    /\ Len(admitted) > config.rateLimit.maxRequests
    /\ lastCall.at = now

\* C29: an executeShortcut call ends as not found only when the shortcut list
\* was obtained and the name is not in it; a `shortcuts list` that fails makes
\* the call end as an execution failure
C29_NotFoundMeansAbsent ==
    \A r \in Calls :
        (Len(exec[r].phases) = 3 /\ call[r].listFailed) =>
            /\ exec[r].phases[3] = "Failed"
            /\ exec[r].result.error # ShortcutNotFoundError.message

\* the cache key of the discovery a waiting request started
discoveryKey(r) ==
    getCacheKey("shortcuts",
                IF call[r].request.tool = "list_shortcuts"
                THEN listFilter(call[r].request) ELSE NoFilter)

\* C30: with the cache enabled, at most one `shortcuts list` is in flight for
\* a cache key: a request that misses while a discovery for its key is under
\* way waits for that discovery
C30_OneDiscoveryInFlight ==
    config.enableCache =>
        \A r, q \in Calls :
            (r # q /\ call[r].pc = "discovering" /\ call[q].pc = "discovering")
            => discoveryKey(r) # discoveryKey(q)

\* C27: an executeShortcut call whose timer does not stay armed for ever
\* returns an ExecutionResult, whether or not its `shortcuts run` and its
\* `shortcuts list` ever end
C27_CallReturns ==
    \A r \in Calls :
        []<>(exec[r].timer # "armed") =>
            ((exec[r].phases = <<"Pending", "Running">>) ~> (exec[r].results = 1))

\* C35: an executeShortcut call starts at most one `shortcuts run`: a call
\* that ended as Failed or TimedOut made exactly one invocation, and a call
\* that ended as NotFound made none
C35_NoRetry ==
    \A r \in Calls :
        /\ exec[r].invocations <= 1
        /\ (Len(exec[r].phases) = 3 /\ exec[r].phases[3] \in {"Failed", "TimedOut"}) =>
               /\ exec[r].invocations = 1
               /\ exec[r].process # "running" \/ exec[r].phases[3] = "TimedOut"

\* one call ended with a failed exit and another with a timeout, each after
\* one invocation
C35_Witness ==
    \E r, q \in Calls :
        /\ Len(exec[r].phases) = 3 /\ exec[r].phases[3] = "Failed"
        /\ Len(exec[q].phases) = 3 /\ exec[q].phases[3] = "TimedOut"
        /\ exec[r].invocations = 1 /\ exec[q].invocations = 1

\* a list_shortcuts request whose `shortcuts list` ended well
listedFor(r) == call[r].request.tool = "list_shortcuts" /\ call[r].listed # <<>>

\* C31: of two lookups of one key that both discover, the cache keeps the
\* list of the one that started last, whichever discovery ends first
C31_LastStartedWins ==
    (config.enableCache /\ ~lastCall.cleared) =>
        \A r, q \in Calls :
            (r < q /\ listedFor(r) /\ listedFor(q) /\ discoveryKey(r) = discoveryKey(q))
            => /\ discoveryKey(q) \in DOMAIN shortcutsCache
               /\ shortcutsCache[discoveryKey(q)].data = discovered(call[q].listed[1])

\* C32: from clearCache on and until the next lookup call, both caches are
\* empty and getCacheStats reports size 0, hits 0 and misses 0; a discovery
\* under way when the cache was cleared stores nothing
C32_ClearedStaysEmpty ==
    (lastCall.cleared /\ cacheStats.hits + cacheStats.misses = 0) =>
        /\ DOMAIN shortcutsCache = {} /\ DOMAIN infoCache = {}
        /\ lastCall.op = "getCacheStats" =>
               lastCall.stats = [size |-> 0, hits |-> 0, misses |-> 0, hitRate |-> <<0, 1>>]

\* the listShortcuts and getShortcutInfo calls with this outcome made since
\* the cache was last cleared, the calls getShortcutInfo makes included
outcomes(kind) ==
    Cardinality({ p \in Calls \X (1..2) :
                    p[2] <= Len(call[p[1]].calls) /\ call[p[1]].calls[p[2]] = kind })

\* the requests that called listShortcuts or getShortcutInfo since then
lookupRequests == Cardinality({ r \in Calls : call[r].calls # <<>> })

\* C33 as stated: hits + misses is the number of listShortcuts and
\* getShortcutInfo calls the handlers made since the last clearCache, each
\* call changing the sum by one
C33_OnePerCall ==
    cacheStats.hits + cacheStats.misses = lookupRequests

\* C33: every listShortcuts and getShortcutInfo call, the listShortcuts call
\* that getShortcutInfo makes on a miss counted as a call of its own, adds
\* one to hits on a hit and one to misses on a miss; getCacheStats reports
\* hits / (hits + misses), or 0 when the sum is 0
C33_CountersMatchCalls ==
    /\ cacheStats.hits = outcomes("hit")
    /\ cacheStats.misses = outcomes("miss")
    /\ lastCall.op = "getCacheStats" =>
           LET st == lastCall.stats IN
           st.hitRate = IF st.hits + st.misses > 0
                        THEN <<st.hits, st.hits + st.misses>> ELSE <<0, 1>>

\* getShortcutInfo missed and its listShortcuts call hit, and getCacheStats
\* reported both
C33_Witness ==
    /\ \E r \in Calls : call[r].calls = <<"miss", "hit">>
    /\ lastCall.op = "getCacheStats"
    /\ lastCall.stats.hits = cacheStats.hits /\ lastCall.stats.misses = cacheStats.misses
    /\ lastCall.stats.hitRate[1] > 0

\* a list_shortcuts request that was answered, from the cache or not
listAnswered(q) ==
    /\ call[q].request.tool = "list_shortcuts"
    /\ call[q].pc = "done" /\ ~call[q].response.isError

\* the names listShortcuts gives for a discovered list and the filter of a request
filteredNames(names, q) ==
    namesOf(applyFilter(discovered(names), listFilter(call[q].request)))

\* C34: listShortcuts(f) answered from the cache returns applyFilter(L, f)
\* for a list L that a discovery for f's key returned in full, as the
\* uncached path does for its own discovery; this also when the entry was
\* stored for another filter with the same key
C34_CachedAsUncached ==
    \A q \in Calls :
        listAnswered(q) =>
            IF call[q].listed # <<>>
            THEN call[q].response.names = filteredNames(call[q].listed[1], q)
            ELSE \E r \in Calls \ {q} :
                    /\ listedFor(r) /\ discoveryKey(r) = discoveryKey(q)
                    /\ call[q].response.names = filteredNames(call[r].listed[1], q)

\* a request was answered from the entry that a request with another filter
\* and the same key had stored, and got the list of its own filter
C34_Witness ==
    \E r, q \in Calls :
        /\ listedFor(r) /\ listAnswered(q) /\ call[q].listed = <<>>
        /\ call[q].lookups # <<>> /\ call[q].lookups[1].hit
        /\ listFilter(call[r].request) # listFilter(call[q].request)
        /\ discoveryKey(r) = discoveryKey(q)
        /\ call[r].response.names = <<>>
        /\ call[q].response.names = <<HelloWorld>>

min(a, b) == IF a <= b THEN a ELSE b

\* the n most recently appended entries of the log, in insertion order
mostRecent(n) == SubSeq(auditLog, Len(auditLog) - n + 1, Len(auditLog))

\* C15: getAuditLog(limit) returns exactly the min(limit, size) most recent
\* entries in insertion order (100 when limit is omitted, none when limit is
\* 0) and leaves the log as it is; on an empty log it returns the empty list.
C15_MostRecent ==
    lastCall.op = "getAuditLog" =>
        /\ lastCall.returned = mostRecent(min(limitOf(lastCall.limit), Len(auditLog)))
        /\ Len(auditLog) = min(logged, MaxAuditEntries)
        /\ auditLog = <<>> => lastCall.returned = <<>>

\* C7: the audit log holds at most 1000 entries and always equals the most
\* recent min(k, 1000) entries logged since the last clear, in insertion order.
C7_AuditBoundFifo ==
    /\ Len(auditLog) <= MaxAuditEntries
    /\ Len(auditLog) = min(logged, MaxAuditEntries)
    /\ \A i \in DOMAIN auditLog :
          /\ auditLog[i].serial = logged - Len(auditLog) + i
          /\ auditLog[i].shortcutName = auditName(auditLog[i].serial)
          /\ auditLog[i].success = auditDetails(auditLog[i].serial).success

\* after 1001 appends the 1st entry is gone and the 1001st is present
C7_Witness ==
    /\ logged = MaxAuditEntries + 1
    /\ Len(auditLog) = MaxAuditEntries
    /\ auditLog[1].serial = 2
    /\ auditLog[MaxAuditEntries].serial = MaxAuditEntries + 1

====
